---------------------------- MODULE Spec2Model ----------------------------
(***************************************************************************)
(* Quest-script toolchain of src/src/QuestScript.cc: the opcode dictionary *)
(* and its per-build lookup indexes, the reachability disassembler, the    *)
(* episode detector, the assembler and its register assigner.              *)
(*                                                                         *)
(* The module holds several specifications over one set of variables; each *)
(* runs one part of the program and keeps the other parts' variables idle. *)
(***************************************************************************)
EXTENDS Integers, Sequences, FiniteSets, TLC

VARIABLES
  ix_call,    \* the index being built: [fn, v] (opcodes_for_version / opcodes_by_name_for_version)
  ix_z,       \* the loop cursor z over opcode_defs (1-based)
  ix_index,   \* the index under construction: key -> row of opcode_defs
  ix_pc,      \* "idle" | "loop" | "returned" | "threw"
  ob_row,     \* opcode emission round trip: the row of opcode_defs
  ob_reg,     \* the number N of the register rN the line names, when the row takes one
  ob_bytes,   \* the bytes code_w received
  ob_read,    \* what the disassembler's opcode read returned
  ob_pc       \* "idle" | "start" | "emitted" | "read"

ixVars == <<ix_call, ix_z, ix_index, ix_pc>>
obVars == <<ob_row, ob_reg, ob_bytes, ob_read, ob_pc>>

-----------------------------------------------------------------------------
(* Integer helpers for the C++ bit operations.                             *)

\* (x & b) != 0 for a single-bit mask b
BitSet(x, b) == (x \div b) % 2 = 1

Range(s) == {s[i] : i \in DOMAIN s}

Min(S) == CHOOSE x \in S : \A y \in S : x <= y

\* nullptr for a const char*
NULLSTR == ""

-----------------------------------------------------------------------------
(* Versions and flag bits (QuestScript.cc 205-256).                        *)

\* Version enumerators, as fixed by the static_asserts on v_flag
PC_PATCH == 0
BB_PATCH == 1
DC_NTE == 2
DC_V1_11_2000_PROTOTYPE == 3
DC_V1 == 4
DC_V2 == 5
PC_NTE == 6
PC_V2 == 7
GC_NTE == 8
GC_V3 == 9
GC_EP3_NTE == 10
GC_EP3 == 11
XB_V3 == 12
BB_V4 == 13

RECURSIVE Pow2(_)
Pow2(n) == IF n = 0 THEN 1 ELSE 2 * Pow2(n - 1)

v_flag(v) == Pow2(v)

F_PASS == 1
F_ARGS == 2
F_DC_NTE == 4
F_DC_112000 == 8
F_DC_V1 == 16
F_DC_V2 == 32
F_PC_NTE == 64
F_PC_V2 == 128
F_GC_NTE == 256
F_GC_V3 == 512
F_GC_EP3TE == 1024
F_GC_EP3 == 2048
F_XB_V3 == 4096
F_BB_V4 == 8192
F_RET == 16384
F_SET_EPISODE == 32768

F_V0_V2 == F_DC_NTE + F_DC_112000 + F_DC_V1 + F_DC_V2 + F_PC_NTE + F_PC_V2 + F_GC_NTE
F_V0_V4 == F_DC_NTE + F_DC_112000 + F_DC_V1 + F_DC_V2 + F_PC_NTE + F_PC_V2 + F_GC_NTE + F_GC_V3 + F_GC_EP3TE + F_GC_EP3 + F_XB_V3 + F_BB_V4
F_V05_V2 == F_DC_112000 + F_DC_V1 + F_DC_V2 + F_PC_NTE + F_PC_V2 + F_GC_NTE
F_V05_V4 == F_DC_112000 + F_DC_V1 + F_DC_V2 + F_PC_NTE + F_PC_V2 + F_GC_NTE + F_GC_V3 + F_GC_EP3TE + F_GC_EP3 + F_XB_V3 + F_BB_V4
F_V1_V2 == F_DC_V1 + F_DC_V2 + F_PC_NTE + F_PC_V2 + F_GC_NTE
F_V1_V4 == F_DC_V1 + F_DC_V2 + F_PC_NTE + F_PC_V2 + F_GC_NTE + F_GC_V3 + F_GC_EP3TE + F_GC_EP3 + F_XB_V3 + F_BB_V4
F_V2 == F_DC_V2 + F_PC_NTE + F_PC_V2 + F_GC_NTE
F_V2_V4 == F_DC_V2 + F_PC_NTE + F_PC_V2 + F_GC_NTE + F_GC_V3 + F_GC_EP3TE + F_GC_EP3 + F_XB_V3 + F_BB_V4
F_V3 == F_GC_V3 + F_GC_EP3TE + F_GC_EP3 + F_XB_V3
F_V3_V4 == F_GC_V3 + F_GC_EP3TE + F_GC_EP3 + F_XB_V3 + F_BB_V4
F_V4 == F_BB_V4
F_HAS_ARGS == F_V3_V4

\* The twelve builds check_opcode_definitions walks
ActiveVersions ==
  {DC_NTE, DC_V1_11_2000_PROTOTYPE, DC_V1, DC_V2, PC_NTE, PC_V2,
   GC_NTE, GC_V3, GC_EP3_NTE, GC_EP3, XB_V3, BB_V4}

\* Every index the static arrays of the two lookup functions hold
IndexedVersions == PC_PATCH .. BB_V4

\* F_HAS_ARGS & v_flag(version)
version_has_args(v) == BitSet(F_HAS_ARGS, v_flag(v))

-----------------------------------------------------------------------------
(* The opcode dictionary (QuestScript.cc 132-203, 272-879).                *)

\* QuestScriptOpcodeDefinition::Argument(type, count, name)
ArgN(type, count) == [type |-> type, count |-> count, data_type |-> "NONE"]
\* QuestScriptOpcodeDefinition::Argument(type, data_type, name)
ArgD(type, data_type) == [type |-> type, count |-> 0, data_type |-> data_type]

SCRIPT16 == ArgD("LABEL16", "SCRIPT")
SCRIPT16_SET == ArgD("LABEL16_SET", "SCRIPT")
SCRIPT32 == ArgD("LABEL32", "SCRIPT")
DATA16 == ArgD("LABEL16", "DATA")
CSTRING_LABEL16 == ArgD("LABEL16", "CSTRING")
CLIENT_ID == ArgN("INT32", 0)
ITEM_ID == ArgN("INT32", 0)
AREA == ArgN("INT32", 0)

\* QuestScriptOpcodeDefinition(opcode, name, qedit_name, args, flags)
Def(opcode, name, qedit_name, args, flags) ==
  [opcode |-> opcode, name |-> name, qedit_name |-> qedit_name, args |-> args, flags |-> flags]

opcode_defs ==
  <<
  Def(0, "nop", NULLSTR, <<>>, F_V0_V4),  \* 0000
  Def(1, "ret", NULLSTR, <<>>, F_V0_V4 + F_RET),  \* 0001
  Def(2, "sync", NULLSTR, <<>>, F_V0_V4),  \* 0002
  Def(3, "exit", NULLSTR, <<ArgN("INT32", 0)>>, F_V0_V4),  \* 0003
  Def(4, "thread", NULLSTR, <<SCRIPT16>>, F_V0_V4),  \* 0004
  Def(5, "va_start", NULLSTR, <<>>, F_V3_V4),  \* 0005
  Def(6, "va_end", NULLSTR, <<>>, F_V3_V4),  \* 0006
  Def(7, "va_call", NULLSTR, <<SCRIPT16>>, F_V3_V4),  \* 0007
  Def(8, "let", NULLSTR, <<ArgN("REG", 0), ArgN("REG", 0)>>, F_V0_V4),  \* 0008
  Def(9, "leti", NULLSTR, <<ArgN("REG", 0), ArgN("INT32", 0)>>, F_V0_V4),  \* 0009
  Def(10, "leta", NULLSTR, <<ArgN("REG", 0), ArgN("REG", 0)>>, F_V0_V2),  \* 000A
  Def(10, "letb", NULLSTR, <<ArgN("REG", 0), ArgN("INT8", 0)>>, F_V3_V4),  \* 000A
  Def(11, "letw", NULLSTR, <<ArgN("REG", 0), ArgN("INT16", 0)>>, F_V3_V4),  \* 000B
  Def(12, "leta", NULLSTR, <<ArgN("REG", 0), ArgN("REG", 0)>>, F_V3_V4),  \* 000C
  Def(13, "leto", NULLSTR, <<ArgN("REG", 0), SCRIPT16>>, F_V3_V4),  \* 000D
  Def(16, "set", NULLSTR, <<ArgN("REG", 0)>>, F_V0_V4),  \* 0010
  Def(17, "clear", NULLSTR, <<ArgN("REG", 0)>>, F_V0_V4),  \* 0011
  Def(18, "rev", NULLSTR, <<ArgN("REG", 0)>>, F_V0_V4),  \* 0012
  Def(19, "gset", NULLSTR, <<ArgN("INT16", 0)>>, F_V0_V4),  \* 0013
  Def(20, "gclear", NULLSTR, <<ArgN("INT16", 0)>>, F_V0_V4),  \* 0014
  Def(21, "grev", NULLSTR, <<ArgN("INT16", 0)>>, F_V0_V4),  \* 0015
  Def(22, "glet", NULLSTR, <<ArgN("INT16", 0), ArgN("REG", 0)>>, F_V0_V4),  \* 0016
  Def(23, "gget", NULLSTR, <<ArgN("INT16", 0), ArgN("REG", 0)>>, F_V0_V4),  \* 0017
  Def(24, "add", NULLSTR, <<ArgN("REG", 0), ArgN("REG", 0)>>, F_V0_V4),  \* 0018
  Def(25, "addi", NULLSTR, <<ArgN("REG", 0), ArgN("INT32", 0)>>, F_V0_V4),  \* 0019
  Def(26, "sub", NULLSTR, <<ArgN("REG", 0), ArgN("REG", 0)>>, F_V0_V4),  \* 001A
  Def(27, "subi", NULLSTR, <<ArgN("REG", 0), ArgN("INT32", 0)>>, F_V0_V4),  \* 001B
  Def(28, "mul", NULLSTR, <<ArgN("REG", 0), ArgN("REG", 0)>>, F_V0_V4),  \* 001C
  Def(29, "muli", NULLSTR, <<ArgN("REG", 0), ArgN("INT32", 0)>>, F_V0_V4),  \* 001D
  Def(30, "div", NULLSTR, <<ArgN("REG", 0), ArgN("REG", 0)>>, F_V0_V4),  \* 001E
  Def(31, "divi", NULLSTR, <<ArgN("REG", 0), ArgN("INT32", 0)>>, F_V0_V4),  \* 001F
  Def(32, "and", NULLSTR, <<ArgN("REG", 0), ArgN("REG", 0)>>, F_V0_V4),  \* 0020
  Def(33, "andi", NULLSTR, <<ArgN("REG", 0), ArgN("INT32", 0)>>, F_V0_V4),  \* 0021
  Def(34, "or", NULLSTR, <<ArgN("REG", 0), ArgN("REG", 0)>>, F_V0_V4),  \* 0022
  Def(35, "ori", NULLSTR, <<ArgN("REG", 0), ArgN("INT32", 0)>>, F_V0_V4),  \* 0023
  Def(36, "xor", NULLSTR, <<ArgN("REG", 0), ArgN("REG", 0)>>, F_V0_V4),  \* 0024
  Def(37, "xori", NULLSTR, <<ArgN("REG", 0), ArgN("INT32", 0)>>, F_V0_V4),  \* 0025
  Def(38, "mod", NULLSTR, <<ArgN("REG", 0), ArgN("REG", 0)>>, F_V3_V4),  \* 0026
  Def(39, "modi", NULLSTR, <<ArgN("REG", 0), ArgN("INT32", 0)>>, F_V3_V4),  \* 0027
  Def(40, "jmp", NULLSTR, <<SCRIPT16>>, F_V0_V4),  \* 0028
  Def(41, "call", NULLSTR, <<SCRIPT16>>, F_V0_V4),  \* 0029
  Def(42, "jmp_on", NULLSTR, <<SCRIPT16, ArgN("REG_SET", 0)>>, F_V0_V4),  \* 002A
  Def(43, "jmp_off", NULLSTR, <<SCRIPT16, ArgN("REG_SET", 0)>>, F_V0_V4),  \* 002B
  Def(44, "jmp_eq", "jmp_=", <<ArgN("REG", 0), ArgN("REG", 0), SCRIPT16>>, F_V0_V4),  \* 002C
  Def(45, "jmpi_eq", "jmpi_=", <<ArgN("REG", 0), ArgN("INT32", 0), SCRIPT16>>, F_V0_V4),  \* 002D
  Def(46, "jmp_ne", "jmp_!=", <<ArgN("REG", 0), ArgN("REG", 0), SCRIPT16>>, F_V0_V4),  \* 002E
  Def(47, "jmpi_ne", "jmpi_!=", <<ArgN("REG", 0), ArgN("INT32", 0), SCRIPT16>>, F_V0_V4),  \* 002F
  Def(48, "ujmp_gt", "ujmp_>", <<ArgN("REG", 0), ArgN("REG", 0), SCRIPT16>>, F_V0_V4),  \* 0030
  Def(49, "ujmpi_gt", "ujmpi_>", <<ArgN("REG", 0), ArgN("INT32", 0), SCRIPT16>>, F_V0_V4),  \* 0031
  Def(50, "jmp_gt", "jmp_>", <<ArgN("REG", 0), ArgN("REG", 0), SCRIPT16>>, F_V0_V4),  \* 0032
  Def(51, "jmpi_gt", "jmpi_>", <<ArgN("REG", 0), ArgN("INT32", 0), SCRIPT16>>, F_V0_V4),  \* 0033
  Def(52, "ujmp_lt", "ujmp_<", <<ArgN("REG", 0), ArgN("REG", 0), SCRIPT16>>, F_V0_V4),  \* 0034
  Def(53, "ujmpi_lt", "ujmpi_<", <<ArgN("REG", 0), ArgN("INT32", 0), SCRIPT16>>, F_V0_V4),  \* 0035
  Def(54, "jmp_lt", "jmp_<", <<ArgN("REG", 0), ArgN("REG", 0), SCRIPT16>>, F_V0_V4),  \* 0036
  Def(55, "jmpi_lt", "jmpi_<", <<ArgN("REG", 0), ArgN("INT32", 0), SCRIPT16>>, F_V0_V4),  \* 0037
  Def(56, "ujmp_ge", "ujmp_>=", <<ArgN("REG", 0), ArgN("REG", 0), SCRIPT16>>, F_V0_V4),  \* 0038
  Def(57, "ujmpi_ge", "ujmpi_>=", <<ArgN("REG", 0), ArgN("INT32", 0), SCRIPT16>>, F_V0_V4),  \* 0039
  Def(58, "jmp_ge", "jmp_>=", <<ArgN("REG", 0), ArgN("REG", 0), SCRIPT16>>, F_V0_V4),  \* 003A
  Def(59, "jmpi_ge", "jmpi_>=", <<ArgN("REG", 0), ArgN("INT32", 0), SCRIPT16>>, F_V0_V4),  \* 003B
  Def(60, "ujmp_le", "ujmp_<=", <<ArgN("REG", 0), ArgN("REG", 0), SCRIPT16>>, F_V0_V4),  \* 003C
  Def(61, "ujmpi_le", "ujmpi_<=", <<ArgN("REG", 0), ArgN("INT32", 0), SCRIPT16>>, F_V0_V4),  \* 003D
  Def(62, "jmp_le", "jmp_<=", <<ArgN("REG", 0), ArgN("REG", 0), SCRIPT16>>, F_V0_V4),  \* 003E
  Def(63, "jmpi_le", "jmpi_<=", <<ArgN("REG", 0), ArgN("INT32", 0), SCRIPT16>>, F_V0_V4),  \* 003F
  Def(64, "switch_jmp", NULLSTR, <<ArgN("REG", 0), SCRIPT16_SET>>, F_V0_V4),  \* 0040
  Def(65, "switch_call", NULLSTR, <<ArgN("REG", 0), SCRIPT16_SET>>, F_V0_V4),  \* 0041
  Def(66, "nop_42", NULLSTR, <<ArgN("INT32", 0)>>, F_V0_V2),  \* 0042
  Def(66, "stack_push", NULLSTR, <<ArgN("REG", 0)>>, F_V3_V4),  \* 0042
  Def(67, "stack_pop", NULLSTR, <<ArgN("REG", 0)>>, F_V3_V4),  \* 0043
  Def(68, "stack_pushm", NULLSTR, <<ArgN("REG", 0), ArgN("INT32", 0)>>, F_V3_V4),  \* 0044
  Def(69, "stack_popm", NULLSTR, <<ArgN("REG", 0), ArgN("INT32", 0)>>, F_V3_V4),  \* 0045
  Def(72, "arg_pushr", NULLSTR, <<ArgN("REG", 0)>>, F_V3_V4 + F_PASS),  \* 0048
  Def(73, "arg_pushl", NULLSTR, <<ArgN("INT32", 0)>>, F_V3_V4 + F_PASS),  \* 0049
  Def(74, "arg_pushb", NULLSTR, <<ArgN("INT8", 0)>>, F_V3_V4 + F_PASS),  \* 004A
  Def(75, "arg_pushw", NULLSTR, <<ArgN("INT16", 0)>>, F_V3_V4 + F_PASS),  \* 004B
  Def(76, "arg_pusha", NULLSTR, <<ArgN("REG", 0)>>, F_V3_V4 + F_PASS),  \* 004C
  Def(77, "arg_pusho", NULLSTR, <<ArgN("LABEL16", 0)>>, F_V3_V4 + F_PASS),  \* 004D
  Def(78, "arg_pushs", NULLSTR, <<ArgN("CSTRING", 0)>>, F_V3_V4 + F_PASS),  \* 004E
  Def(80, "message", NULLSTR, <<ArgN("INT32", 0), ArgN("CSTRING", 0)>>, F_V0_V4 + F_ARGS),  \* 0050
  Def(81, "list", NULLSTR, <<ArgN("REG", 0), ArgN("CSTRING", 0)>>, F_V0_V4 + F_ARGS),  \* 0051
  Def(82, "fadein", NULLSTR, <<>>, F_V0_V4),  \* 0052
  Def(83, "fadeout", NULLSTR, <<>>, F_V0_V4),  \* 0053
  Def(84, "se", NULLSTR, <<ArgN("INT32", 0)>>, F_V0_V4 + F_ARGS),  \* 0054
  Def(85, "bgm", NULLSTR, <<ArgN("INT32", 0)>>, F_V0_V4 + F_ARGS),  \* 0055
  Def(86, "nop_56", NULLSTR, <<>>, F_V0_V2),  \* 0056
  Def(87, "nop_57", NULLSTR, <<>>, F_V0_V2),  \* 0057
  Def(88, "nop_58", "enable", <<ArgN("INT32", 0)>>, F_V0_V2),  \* 0058
  Def(89, "nop_59", "disable", <<ArgN("INT32", 0)>>, F_V0_V2),  \* 0059
  Def(90, "window_msg", NULLSTR, <<ArgN("CSTRING", 0)>>, F_V0_V4 + F_ARGS),  \* 005A
  Def(91, "add_msg", NULLSTR, <<ArgN("CSTRING", 0)>>, F_V0_V4 + F_ARGS),  \* 005B
  Def(92, "mesend", NULLSTR, <<>>, F_V0_V4),  \* 005C
  Def(93, "gettime", NULLSTR, <<ArgN("REG", 0)>>, F_V0_V4),  \* 005D
  Def(94, "winend", NULLSTR, <<>>, F_V0_V4),  \* 005E
  Def(96, "npc_crt", "npc_crt_V1", <<ArgN("INT32", 0), ArgN("INT32", 0)>>, F_V0_V2 + F_ARGS),  \* 0060
  Def(96, "npc_crt", "npc_crt_V3", <<ArgN("INT32", 0), ArgN("INT32", 0)>>, F_V3_V4 + F_ARGS),  \* 0060
  Def(97, "npc_stop", NULLSTR, <<ArgN("INT32", 0)>>, F_V0_V4 + F_ARGS),  \* 0061
  Def(98, "npc_play", NULLSTR, <<ArgN("INT32", 0)>>, F_V0_V4 + F_ARGS),  \* 0062
  Def(99, "npc_kill", NULLSTR, <<ArgN("INT32", 0)>>, F_V0_V4 + F_ARGS),  \* 0063
  Def(100, "npc_nont", NULLSTR, <<>>, F_V0_V4),  \* 0064
  Def(101, "npc_talk", NULLSTR, <<>>, F_V0_V4),  \* 0065
  Def(102, "npc_crp", "npc_crp_V1", <<ArgN("REG_SET_FIXED", 6), ArgN("INT32", 0)>>, F_V0_V2),  \* 0066
  Def(102, "npc_crp", "npc_crp_V3", <<ArgN("REG_SET_FIXED", 6)>>, F_V3_V4),  \* 0066
  Def(104, "create_pipe", NULLSTR, <<ArgN("INT32", 0)>>, F_V0_V4 + F_ARGS),  \* 0068
  Def(105, "p_hpstat", "p_hpstat_V1", <<ArgN("REG", 0), CLIENT_ID>>, F_V0_V2 + F_ARGS),  \* 0069
  Def(105, "p_hpstat", "p_hpstat_V3", <<ArgN("REG", 0), CLIENT_ID>>, F_V3_V4 + F_ARGS),  \* 0069
  Def(106, "p_dead", "p_dead_V1", <<ArgN("REG", 0), CLIENT_ID>>, F_V0_V2 + F_ARGS),  \* 006A
  Def(106, "p_dead", "p_dead_V3", <<ArgN("REG", 0), CLIENT_ID>>, F_V3_V4 + F_ARGS),  \* 006A
  Def(107, "p_disablewarp", NULLSTR, <<>>, F_V0_V4),  \* 006B
  Def(108, "p_enablewarp", NULLSTR, <<>>, F_V0_V4),  \* 006C
  Def(109, "p_move", "p_move_v1", <<ArgN("REG_SET_FIXED", 5), ArgN("INT32", 0)>>, F_V0_V2),  \* 006D
  Def(109, "p_move", "p_move_V3", <<ArgN("REG_SET_FIXED", 5)>>, F_V3_V4),  \* 006D
  Def(110, "p_look", NULLSTR, <<CLIENT_ID>>, F_V0_V4 + F_ARGS),  \* 006E
  Def(112, "p_action_disable", NULLSTR, <<>>, F_V0_V4),  \* 0070
  Def(113, "p_action_enable", NULLSTR, <<>>, F_V0_V4),  \* 0071
  Def(114, "disable_movement1", NULLSTR, <<CLIENT_ID>>, F_V0_V4 + F_ARGS),  \* 0072
  Def(115, "enable_movement1", NULLSTR, <<CLIENT_ID>>, F_V0_V4 + F_ARGS),  \* 0073
  Def(116, "p_noncol", NULLSTR, <<>>, F_V0_V4),  \* 0074
  Def(117, "p_col", NULLSTR, <<>>, F_V0_V4),  \* 0075
  Def(118, "p_setpos", NULLSTR, <<CLIENT_ID, ArgN("REG_SET_FIXED", 4)>>, F_V0_V4 + F_ARGS),  \* 0076
  Def(119, "p_return_guild", NULLSTR, <<>>, F_V0_V4),  \* 0077
  Def(120, "p_talk_guild", NULLSTR, <<CLIENT_ID>>, F_V0_V4 + F_ARGS),  \* 0078
  Def(121, "npc_talk_pl", "npc_talk_pl_V1", <<ArgN("REG32_SET_FIXED", 8)>>, F_V0_V2),  \* 0079
  Def(121, "npc_talk_pl", "npc_talk_pl_V3", <<ArgN("REG_SET_FIXED", 8)>>, F_V3_V4),  \* 0079
  Def(122, "npc_talk_kill", NULLSTR, <<ArgN("INT32", 0)>>, F_V0_V4 + F_ARGS),  \* 007A
  Def(123, "npc_crtpk", "npc_crtpk_V1", <<ArgN("INT32", 0), ArgN("INT32", 0)>>, F_V0_V2 + F_ARGS),  \* 007B
  Def(123, "npc_crtpk", "npc_crtpk_V3", <<ArgN("INT32", 0), ArgN("INT32", 0)>>, F_V3_V4 + F_ARGS),  \* 007B
  Def(124, "npc_crppk", "npc_crppk_V1", <<ArgN("REG32_SET_FIXED", 7), ArgN("INT32", 0)>>, F_V0_V2),  \* 007C
  Def(124, "npc_crppk", "npc_crppk_V3", <<ArgN("REG_SET_FIXED", 7)>>, F_V3_V4),  \* 007C
  Def(125, "npc_crptalk", "npc_crptalk_v1", <<ArgN("REG32_SET_FIXED", 6), ArgN("INT32", 0)>>, F_V0_V2),  \* 007D
  Def(125, "npc_crptalk", "npc_crptalk_V3", <<ArgN("REG_SET_FIXED", 6)>>, F_V3_V4),  \* 007D
  Def(126, "p_look_at", NULLSTR, <<CLIENT_ID, CLIENT_ID>>, F_V0_V4 + F_ARGS),  \* 007E
  Def(127, "npc_crp_id", "npc_crp_id_V1", <<ArgN("REG32_SET_FIXED", 7), ArgN("INT32", 0)>>, F_V0_V2),  \* 007F
  Def(127, "npc_crp_id", "npc_crp_id_v3", <<ArgN("REG_SET_FIXED", 7)>>, F_V3_V4),  \* 007F
  Def(128, "cam_quake", NULLSTR, <<>>, F_V0_V4),  \* 0080
  Def(129, "cam_adj", NULLSTR, <<>>, F_V0_V4),  \* 0081
  Def(130, "cam_zmin", NULLSTR, <<>>, F_V0_V4),  \* 0082
  Def(131, "cam_zmout", NULLSTR, <<>>, F_V0_V4),  \* 0083
  Def(132, "cam_pan", "cam_pan_V1", <<ArgN("REG32_SET_FIXED", 5), ArgN("INT32", 0)>>, F_V0_V2),  \* 0084
  Def(132, "cam_pan", "cam_pan_V3", <<ArgN("REG_SET_FIXED", 5)>>, F_V3_V4),  \* 0084
  Def(133, "game_lev_super", NULLSTR, <<>>, F_V0_V2),  \* 0085
  Def(133, "nop_85", NULLSTR, <<>>, F_V3_V4),  \* 0085
  Def(134, "game_lev_reset", NULLSTR, <<>>, F_V0_V2),  \* 0086
  Def(134, "nop_86", NULLSTR, <<>>, F_V3_V4),  \* 0086
  Def(135, "pos_pipe", "pos_pipe_V1", <<ArgN("REG32_SET_FIXED", 4), ArgN("INT32", 0)>>, F_V0_V2),  \* 0087
  Def(135, "pos_pipe", "pos_pipe_V3", <<ArgN("REG_SET_FIXED", 4)>>, F_V3_V4),  \* 0087
  Def(136, "if_zone_clear", NULLSTR, <<ArgN("REG", 0), ArgN("REG_SET_FIXED", 2)>>, F_V0_V4),  \* 0088
  Def(137, "chk_ene_num", NULLSTR, <<ArgN("REG", 0)>>, F_V0_V4),  \* 0089
  Def(138, "unhide_obj", NULLSTR, <<ArgN("REG_SET_FIXED", 3)>>, F_V0_V4),  \* 008A
  Def(139, "unhide_ene", NULLSTR, <<ArgN("REG_SET_FIXED", 3)>>, F_V0_V4),  \* 008B
  Def(140, "at_coords_call", NULLSTR, <<ArgN("REG_SET_FIXED", 5)>>, F_V0_V4),  \* 008C
  Def(141, "at_coords_talk", NULLSTR, <<ArgN("REG_SET_FIXED", 5)>>, F_V0_V4),  \* 008D
  Def(142, "npc_coords_call", NULLSTR, <<ArgN("REG_SET_FIXED", 5)>>, F_V0_V4),  \* 008E
  Def(143, "party_coords_call", NULLSTR, <<ArgN("REG_SET_FIXED", 6)>>, F_V0_V4),  \* 008F
  Def(144, "switch_on", NULLSTR, <<ArgN("INT32", 0)>>, F_V0_V4 + F_ARGS),  \* 0090
  Def(145, "switch_off", NULLSTR, <<ArgN("INT32", 0)>>, F_V0_V4 + F_ARGS),  \* 0091
  Def(146, "playbgm_epi", NULLSTR, <<ArgN("INT32", 0)>>, F_V0_V4 + F_ARGS),  \* 0092
  Def(147, "set_mainwarp", NULLSTR, <<ArgN("INT32", 0)>>, F_V0_V4 + F_ARGS),  \* 0093
  Def(148, "set_obj_param", NULLSTR, <<ArgN("REG_SET_FIXED", 6), ArgN("REG", 0)>>, F_V0_V4),  \* 0094
  Def(149, "set_floor_handler", NULLSTR, <<AREA, SCRIPT32>>, F_V0_V2),  \* 0095
  Def(149, "set_floor_handler", NULLSTR, <<AREA, SCRIPT16>>, F_V3_V4 + F_ARGS),  \* 0095
  Def(150, "clr_floor_handler", NULLSTR, <<AREA>>, F_V0_V4 + F_ARGS),  \* 0096
  Def(151, "npc_check_straggle", NULLSTR, <<ArgN("REG_SET_FIXED", 9)>>, F_V1_V4),  \* 0097
  Def(152, "hud_hide", NULLSTR, <<>>, F_V0_V4),  \* 0098
  Def(153, "hud_show", NULLSTR, <<>>, F_V0_V4),  \* 0099
  Def(154, "cine_enable", NULLSTR, <<>>, F_V0_V4),  \* 009A
  Def(155, "cine_disable", NULLSTR, <<>>, F_V0_V4),  \* 009B
  Def(160, "nop_A0_debug", NULLSTR, <<ArgN("INT32", 0), ArgN("CSTRING", 0)>>, F_V0_V4 + F_ARGS),  \* 00A0
  Def(161, "set_qt_failure", NULLSTR, <<SCRIPT32>>, F_V0_V2),  \* 00A1
  Def(161, "set_qt_failure", NULLSTR, <<SCRIPT16>>, F_V3_V4),  \* 00A1
  Def(162, "set_qt_success", NULLSTR, <<SCRIPT32>>, F_V0_V2),  \* 00A2
  Def(162, "set_qt_success", NULLSTR, <<SCRIPT16>>, F_V3_V4),  \* 00A2
  Def(163, "clr_qt_failure", NULLSTR, <<>>, F_V0_V4),  \* 00A3
  Def(164, "clr_qt_success", NULLSTR, <<>>, F_V0_V4),  \* 00A4
  Def(165, "set_qt_cancel", NULLSTR, <<SCRIPT32>>, F_V0_V2),  \* 00A5
  Def(165, "set_qt_cancel", NULLSTR, <<SCRIPT16>>, F_V3_V4),  \* 00A5
  Def(166, "clr_qt_cancel", NULLSTR, <<>>, F_V0_V4),  \* 00A6
  Def(168, "pl_walk", "pl_walk_V1", <<ArgN("REG32_SET_FIXED", 4), ArgN("INT32", 0)>>, F_V0_V2),  \* 00A8
  Def(168, "pl_walk", "pl_walk_V3", <<ArgN("REG_SET_FIXED", 4)>>, F_V3_V4),  \* 00A8
  Def(176, "pl_add_meseta", NULLSTR, <<CLIENT_ID, ArgN("INT32", 0)>>, F_V0_V4 + F_ARGS),  \* 00B0
  Def(177, "thread_stg", NULLSTR, <<SCRIPT16>>, F_V0_V4),  \* 00B1
  Def(178, "del_obj_param", NULLSTR, <<ArgN("REG", 0)>>, F_V0_V4),  \* 00B2
  Def(179, "item_create", NULLSTR, <<ArgN("REG_SET_FIXED", 3), ArgN("REG", 0)>>, F_V0_V4),  \* 00B3
  Def(180, "item_create2", NULLSTR, <<ArgN("REG_SET_FIXED", 12), ArgN("REG", 0)>>, F_V0_V4),  \* 00B4
  Def(181, "item_delete", NULLSTR, <<ArgN("REG", 0), ArgN("REG_SET_FIXED", 12)>>, F_V0_V4),  \* 00B5
  Def(182, "item_delete2", NULLSTR, <<ArgN("REG_SET_FIXED", 3), ArgN("REG_SET_FIXED", 12)>>, F_V0_V4),  \* 00B6
  Def(183, "item_check", NULLSTR, <<ArgN("REG_SET_FIXED", 3), ArgN("REG", 0)>>, F_V0_V4),  \* 00B7
  Def(184, "setevt", NULLSTR, <<ArgN("INT32", 0)>>, F_V05_V4 + F_ARGS),  \* 00B8
  Def(185, "get_difficulty_level_v1", "get_difflvl", <<ArgN("REG", 0)>>, F_V05_V4),  \* 00B9
  Def(186, "set_qt_exit", NULLSTR, <<SCRIPT32>>, F_V05_V2),  \* 00BA
  Def(186, "set_qt_exit", NULLSTR, <<SCRIPT16>>, F_V3_V4),  \* 00BA
  Def(187, "clr_qt_exit", NULLSTR, <<>>, F_V05_V4),  \* 00BB
  Def(188, "nop_BC", NULLSTR, <<ArgN("CSTRING", 0)>>, F_V05_V4),  \* 00BC
  Def(192, "particle", "particle_V1", <<ArgN("REG32_SET_FIXED", 5), ArgN("INT32", 0)>>, F_V05_V2),  \* 00C0
  Def(192, "particle", "particle_V3", <<ArgN("REG_SET_FIXED", 5)>>, F_V3_V4),  \* 00C0
  Def(193, "npc_text", NULLSTR, <<ArgN("INT32", 0), ArgN("CSTRING", 0)>>, F_V05_V4 + F_ARGS),  \* 00C1
  Def(194, "npc_chkwarp", NULLSTR, <<>>, F_V05_V4),  \* 00C2
  Def(195, "pl_pkoff", NULLSTR, <<>>, F_V05_V4),  \* 00C3
  Def(196, "map_designate", NULLSTR, <<ArgN("REG_SET_FIXED", 4)>>, F_V05_V4),  \* 00C4
  Def(197, "masterkey_on", NULLSTR, <<>>, F_V05_V4),  \* 00C5
  Def(198, "masterkey_off", NULLSTR, <<>>, F_V05_V4),  \* 00C6
  Def(199, "window_time", NULLSTR, <<>>, F_V05_V4),  \* 00C7
  Def(200, "winend_time", NULLSTR, <<>>, F_V05_V4),  \* 00C8
  Def(201, "winset_time", NULLSTR, <<ArgN("REG", 0)>>, F_V05_V4),  \* 00C9
  Def(202, "getmtime", NULLSTR, <<ArgN("REG", 0)>>, F_V05_V4),  \* 00CA
  Def(203, "set_quest_board_handler", NULLSTR, <<ArgN("INT32", 0), SCRIPT32, ArgN("CSTRING", 0)>>, F_V05_V2),  \* 00CB
  Def(203, "set_quest_board_handler", NULLSTR, <<ArgN("INT32", 0), SCRIPT16, ArgN("CSTRING", 0)>>, F_V3_V4 + F_ARGS),  \* 00CB
  Def(204, "clear_quest_board_handler", NULLSTR, <<ArgN("INT32", 0)>>, F_V05_V4 + F_ARGS),  \* 00CC
  Def(205, "particle_id", "particle_id_V1", <<ArgN("REG32_SET_FIXED", 4), ArgN("INT32", 0)>>, F_V05_V2),  \* 00CD
  Def(205, "particle_id", "particle_id_V3", <<ArgN("REG_SET_FIXED", 4)>>, F_V3_V4),  \* 00CD
  Def(206, "npc_crptalk_id", "npc_crptalk_id_V1", <<ArgN("REG32_SET_FIXED", 7), ArgN("INT32", 0)>>, F_V05_V2),  \* 00CE
  Def(206, "npc_crptalk_id", "npc_crptalk_id_V3", <<ArgN("REG_SET_FIXED", 7)>>, F_V3_V4),  \* 00CE
  Def(207, "npc_lang_clean", NULLSTR, <<>>, F_V05_V4),  \* 00CF
  Def(208, "pl_pkon", NULLSTR, <<>>, F_V1_V4),  \* 00D0
  Def(209, "pl_chk_item2", NULLSTR, <<ArgN("REG_SET_FIXED", 4), ArgN("REG", 0)>>, F_V1_V4),  \* 00D1
  Def(210, "enable_mainmenu", NULLSTR, <<>>, F_V1_V4),  \* 00D2
  Def(211, "disable_mainmenu", NULLSTR, <<>>, F_V1_V4),  \* 00D3
  Def(212, "start_battlebgm", NULLSTR, <<>>, F_V1_V4),  \* 00D4
  Def(213, "end_battlebgm", NULLSTR, <<>>, F_V1_V4),  \* 00D5
  Def(214, "disp_msg_qb", NULLSTR, <<ArgN("CSTRING", 0)>>, F_V1_V4 + F_ARGS),  \* 00D6
  Def(215, "close_msg_qb", NULLSTR, <<>>, F_V1_V4),  \* 00D7
  Def(216, "set_eventflag", "set_eventflag_v1", <<ArgN("INT32", 0), ArgN("INT32", 0)>>, F_V1_V2 + F_ARGS),  \* 00D8
  Def(216, "set_eventflag", "set_eventflag_v3", <<ArgN("INT32", 0), ArgN("INT32", 0)>>, F_V3_V4 + F_ARGS),  \* 00D8
  Def(217, "sync_register", "sync_leti", <<ArgN("INT32", 0), ArgN("INT32", 0)>>, F_V1_V4 + F_ARGS),  \* 00D9
  Def(218, "set_returnhunter", NULLSTR, <<>>, F_V1_V4),  \* 00DA
  Def(219, "set_returncity", NULLSTR, <<>>, F_V1_V4),  \* 00DB
  Def(220, "load_pvr", NULLSTR, <<>>, F_V1_V4),  \* 00DC
  Def(221, "load_midi", NULLSTR, <<>>, F_V1_V4),  \* 00DD
  Def(222, "item_detect_bank", "unknownDE", <<ArgN("REG_SET_FIXED", 6), ArgN("REG", 0)>>, F_V1_V4),  \* 00DE
  Def(223, "npc_param", "npc_param_V1", <<ArgN("REG32_SET_FIXED", 14), ArgN("INT32", 0)>>, F_V1_V2),  \* 00DF
  Def(223, "npc_param", "npc_param_V3", <<ArgN("REG_SET_FIXED", 14), ArgN("INT32", 0)>>, F_V3_V4 + F_ARGS),  \* 00DF
  Def(224, "pad_dragon", NULLSTR, <<>>, F_V1_V4),  \* 00E0
  Def(225, "clear_mainwarp", NULLSTR, <<ArgN("INT32", 0)>>, F_V1_V4 + F_ARGS),  \* 00E1
  Def(226, "pcam_param", "pcam_param_V1", <<ArgN("REG32_SET_FIXED", 6)>>, F_V1_V2),  \* 00E2
  Def(226, "pcam_param", "pcam_param_V3", <<ArgN("REG_SET_FIXED", 6)>>, F_V3_V4),  \* 00E2
  Def(227, "start_setevt", "start_setevt_v1", <<ArgN("INT32", 0), ArgN("INT32", 0)>>, F_V1_V2 + F_ARGS),  \* 00E3
  Def(227, "start_setevt", "start_setevt_v3", <<ArgN("INT32", 0), ArgN("INT32", 0)>>, F_V3_V4 + F_ARGS),  \* 00E3
  Def(228, "warp_on", NULLSTR, <<>>, F_V1_V4),  \* 00E4
  Def(229, "warp_off", NULLSTR, <<>>, F_V1_V4),  \* 00E5
  Def(230, "get_client_id", "get_slotnumber", <<ArgN("REG", 0)>>, F_V1_V4),  \* 00E6
  Def(231, "get_leader_id", "get_servernumber", <<ArgN("REG", 0)>>, F_V1_V4),  \* 00E7
  Def(232, "set_eventflag2", NULLSTR, <<ArgN("INT32", 0), ArgN("REG", 0)>>, F_V1_V4 + F_ARGS),  \* 00E8
  Def(233, "mod2", "res", <<ArgN("REG", 0), ArgN("REG", 0)>>, F_V1_V4),  \* 00E9
  Def(234, "modi2", "unknownEA", <<ArgN("REG", 0), ArgN("INT32", 0)>>, F_V1_V4),  \* 00EA
  Def(235, "enable_bgmctrl", NULLSTR, <<ArgN("INT32", 0)>>, F_V1_V4 + F_ARGS),  \* 00EB
  Def(236, "sw_send", NULLSTR, <<ArgN("REG_SET_FIXED", 3)>>, F_V1_V4),  \* 00EC
  Def(237, "create_bgmctrl", NULLSTR, <<>>, F_V1_V4),  \* 00ED
  Def(238, "pl_add_meseta2", NULLSTR, <<ArgN("INT32", 0)>>, F_V1_V4 + F_ARGS),  \* 00EE
  Def(239, "sync_register2", "sync_let", <<ArgN("INT32", 0), ArgN("REG32", 0)>>, F_V1_V2),  \* 00EF
  Def(239, "sync_register2", NULLSTR, <<ArgN("REG", 0), ArgN("INT32", 0)>>, F_V3_V4 + F_ARGS),  \* 00EF
  Def(240, "send_regwork", NULLSTR, <<ArgN("REG32", 0), ArgN("REG32", 0)>>, F_V1_V2),  \* 00F0
  Def(241, "leti_fixed_camera", "leti_fixed_camera_V1", <<ArgN("REG32_SET_FIXED", 6)>>, F_V2),  \* 00F1
  Def(241, "leti_fixed_camera", "leti_fixed_camera_V3", <<ArgN("REG_SET_FIXED", 6)>>, F_V3_V4),  \* 00F1
  Def(242, "default_camera_pos1", NULLSTR, <<>>, F_V2_V4),  \* 00F2
  Def(63488, "debug_F800", NULLSTR, <<>>, F_V2),  \* F800
  Def(63489, "set_chat_callback", "set_chat_callback?", <<ArgN("REG32_SET_FIXED", 5), ArgN("CSTRING", 0)>>, F_V2_V4 + F_ARGS),  \* F801
  Def(63496, "get_difficulty_level_v2", "get_difflvl2", <<ArgN("REG", 0)>>, F_V2_V4),  \* F808
  Def(63497, "get_number_of_players", "get_number_of_player1", <<ArgN("REG", 0)>>, F_V2_V4),  \* F809
  Def(63498, "get_coord_of_player", NULLSTR, <<ArgN("REG_SET_FIXED", 3), ArgN("REG", 0)>>, F_V2_V4),  \* F80A
  Def(63499, "enable_map", NULLSTR, <<>>, F_V2_V4),  \* F80B
  Def(63500, "disable_map", NULLSTR, <<>>, F_V2_V4),  \* F80C
  Def(63501, "map_designate_ex", NULLSTR, <<ArgN("REG_SET_FIXED", 5)>>, F_V2_V4),  \* F80D
  Def(63502, "disable_weapon_drop", "unknownF80E", <<CLIENT_ID>>, F_V2_V4 + F_ARGS),  \* F80E
  Def(63503, "enable_weapon_drop", "unknownF80F", <<CLIENT_ID>>, F_V2_V4 + F_ARGS),  \* F80F
  Def(63504, "ba_initial_floor", NULLSTR, <<AREA>>, F_V2_V4 + F_ARGS),  \* F810
  Def(63505, "set_ba_rules", NULLSTR, <<>>, F_V2_V4),  \* F811
  Def(63506, "ba_set_tech_disk_mode", "ba_set_tech", <<ArgN("INT32", 0)>>, F_V2_V4 + F_ARGS),  \* F812
  Def(63507, "ba_set_weapon_and_armor_mode", "ba_set_equip", <<ArgN("INT32", 0)>>, F_V2_V4 + F_ARGS),  \* F813
  Def(63508, "ba_set_forbid_mags", "ba_set_mag", <<ArgN("INT32", 0)>>, F_V2_V4 + F_ARGS),  \* F814
  Def(63509, "ba_set_tool_mode", "ba_set_item", <<ArgN("INT32", 0)>>, F_V2_V4 + F_ARGS),  \* F815
  Def(63510, "ba_set_trap_mode", "ba_set_trapmenu", <<ArgN("INT32", 0)>>, F_V2_V4 + F_ARGS),  \* F816
  Def(63511, "ba_set_unused_F817", "unknownF817", <<ArgN("INT32", 0)>>, F_V2_V4 + F_ARGS),  \* F817
  Def(63512, "ba_set_respawn", NULLSTR, <<ArgN("INT32", 0)>>, F_V2_V4 + F_ARGS),  \* F818
  Def(63513, "ba_set_replace_char", "ba_set_char", <<ArgN("INT32", 0)>>, F_V2_V4 + F_ARGS),  \* F819
  Def(63514, "ba_dropwep", NULLSTR, <<ArgN("INT32", 0)>>, F_V2_V4 + F_ARGS),  \* F81A
  Def(63515, "ba_teams", NULLSTR, <<ArgN("INT32", 0)>>, F_V2_V4 + F_ARGS),  \* F81B
  Def(63516, "ba_start", "ba_disp_msg", <<ArgN("CSTRING", 0)>>, F_V2_V4 + F_ARGS),  \* F81C
  Def(63517, "death_lvl_up", NULLSTR, <<ArgN("INT32", 0)>>, F_V2_V4 + F_ARGS),  \* F81D
  Def(63518, "ba_set_meseta_drop_mode", "ba_set_meseta", <<ArgN("INT32", 0)>>, F_V2_V4 + F_ARGS),  \* F81E
  Def(63520, "cmode_stage", NULLSTR, <<ArgN("INT32", 0)>>, F_V2_V4 + F_ARGS),  \* F820
  Def(63521, "nop_F821", NULLSTR, <<ArgN("REG_SET_FIXED", 9)>>, F_V2_V4),  \* F821
  Def(63522, "nop_F822", NULLSTR, <<ArgN("REG", 0)>>, F_V2_V4),  \* F822
  Def(63523, "set_cmode_char_template", NULLSTR, <<ArgN("INT32", 0)>>, F_V2_V4 + F_ARGS),  \* F823
  Def(63524, "set_cmode_difficulty", "set_cmode_diff", <<ArgN("INT32", 0)>>, F_V2_V4 + F_ARGS),  \* F824
  Def(63525, "exp_multiplication", NULLSTR, <<ArgN("REG_SET_FIXED", 3)>>, F_V2_V4),  \* F825
  Def(63526, "if_player_alive_cm", "exp_division?", <<ArgN("REG", 0)>>, F_V2_V4),  \* F826
  Def(63527, "get_user_is_dead", "get_user_is_dead?", <<ArgN("REG", 0)>>, F_V2_V4),  \* F827
  Def(63528, "go_floor", NULLSTR, <<ArgN("REG", 0), ArgN("REG", 0)>>, F_V2_V4),  \* F828
  Def(63529, "get_num_kills", NULLSTR, <<ArgN("REG", 0), ArgN("REG", 0)>>, F_V2_V4),  \* F829
  Def(63530, "reset_kills", NULLSTR, <<ArgN("REG", 0)>>, F_V2_V4),  \* F82A
  Def(63531, "unlock_door2", NULLSTR, <<ArgN("INT32", 0), ArgN("INT32", 0)>>, F_V2_V4 + F_ARGS),  \* F82B
  Def(63532, "lock_door2", NULLSTR, <<ArgN("INT32", 0), ArgN("INT32", 0)>>, F_V2_V4 + F_ARGS),  \* F82C
  Def(63533, "if_switch_not_pressed", NULLSTR, <<ArgN("REG_SET_FIXED", 2)>>, F_V2_V4),  \* F82D
  Def(63534, "if_switch_pressed", NULLSTR, <<ArgN("REG_SET_FIXED", 3)>>, F_V2_V4),  \* F82E
  Def(63536, "control_dragon", NULLSTR, <<ArgN("REG", 0)>>, F_V2_V4),  \* F830
  Def(63537, "release_dragon", NULLSTR, <<>>, F_V2_V4),  \* F831
  Def(63544, "shrink", NULLSTR, <<ArgN("REG", 0)>>, F_V2_V4),  \* F838
  Def(63545, "unshrink", NULLSTR, <<ArgN("REG", 0)>>, F_V2_V4),  \* F839
  Def(63546, "set_shrink_cam1", NULLSTR, <<ArgN("REG_SET_FIXED", 4)>>, F_V2_V4),  \* F83A
  Def(63547, "set_shrink_cam2", NULLSTR, <<ArgN("REG_SET_FIXED", 4)>>, F_V2_V4),  \* F83B
  Def(63548, "display_clock2", "display_clock2?", <<ArgN("REG", 0)>>, F_V2_V4),  \* F83C
  Def(63549, "set_area_total", "unknownF83D", <<ArgN("INT32", 0)>>, F_V2_V4 + F_ARGS),  \* F83D
  Def(63550, "delete_area_title", "delete_area_title?", <<ArgN("INT32", 0)>>, F_V2_V4 + F_ARGS),  \* F83E
  Def(63552, "load_npc_data", NULLSTR, <<>>, F_V2_V4),  \* F840
  Def(63553, "get_npc_data", NULLSTR, <<ArgD("LABEL16", "PLAYER_VISUAL_CONFIG")>>, F_V2_V4),  \* F841
  Def(63560, "give_damage_score", NULLSTR, <<ArgN("REG_SET_FIXED", 3)>>, F_V2_V4),  \* F848
  Def(63561, "take_damage_score", NULLSTR, <<ArgN("REG_SET_FIXED", 3)>>, F_V2_V4),  \* F849
  Def(63562, "enemy_give_score", "unk_score_F84A", <<ArgN("REG_SET_FIXED", 3)>>, F_V2_V4),  \* F84A
  Def(63563, "enemy_take_score", "unk_score_F84B", <<ArgN("REG_SET_FIXED", 3)>>, F_V2_V4),  \* F84B
  Def(63564, "kill_score", NULLSTR, <<ArgN("REG_SET_FIXED", 3)>>, F_V2_V4),  \* F84C
  Def(63565, "death_score", NULLSTR, <<ArgN("REG_SET_FIXED", 3)>>, F_V2_V4),  \* F84D
  Def(63566, "enemy_kill_score", "unk_score_F84E", <<ArgN("REG_SET_FIXED", 3)>>, F_V2_V4),  \* F84E
  Def(63567, "enemy_death_score", NULLSTR, <<ArgN("REG_SET_FIXED", 3)>>, F_V2_V4),  \* F84F
  Def(63568, "meseta_score", NULLSTR, <<ArgN("REG_SET_FIXED", 3)>>, F_V2_V4),  \* F850
  Def(63569, "ba_set_trap_count", "unknownF851", <<ArgN("REG_SET_FIXED", 2)>>, F_V2_V4),  \* F851
  Def(63570, "ba_set_target", "unknownF852", <<ArgN("INT32", 0)>>, F_V2_V4 + F_ARGS),  \* F852
  Def(63571, "reverse_warps", NULLSTR, <<>>, F_V2_V4),  \* F853
  Def(63572, "unreverse_warps", NULLSTR, <<>>, F_V2_V4),  \* F854
  Def(63573, "set_ult_map", NULLSTR, <<>>, F_V2_V4),  \* F855
  Def(63574, "unset_ult_map", NULLSTR, <<>>, F_V2_V4),  \* F856
  Def(63575, "set_area_title", NULLSTR, <<ArgN("CSTRING", 0)>>, F_V2_V4 + F_ARGS),  \* F857
  Def(63576, "ba_show_self_traps", "BA_Show_Self_Traps", <<>>, F_V2_V4),  \* F858
  Def(63577, "ba_hide_self_traps", "BA_Hide_Self_Traps", <<>>, F_V2_V4),  \* F859
  Def(63578, "equip_item", "equip_item_v2", <<ArgN("REG32_SET_FIXED", 4)>>, F_V2),  \* F85A
  Def(63578, "equip_item", "equip_item_v3", <<ArgN("REG_SET_FIXED", 4)>>, F_V3_V4),  \* F85A
  Def(63579, "unequip_item", "unequip_item_V2", <<CLIENT_ID, ArgN("INT32", 0)>>, F_V2 + F_ARGS),  \* F85B
  Def(63579, "unequip_item", "unequip_item_V3", <<CLIENT_ID, ArgN("INT32", 0)>>, F_V3_V4 + F_ARGS),  \* F85B
  Def(63580, "qexit2", "QEXIT2", <<ArgN("INT32", 0)>>, F_V2_V4),  \* F85C
  Def(63581, "set_allow_item_flags", "unknownF85D", <<ArgN("INT32", 0)>>, F_V2_V4 + F_ARGS),  \* F85D
  Def(63582, "ba_enable_sonar", "unknownF85E", <<ArgN("INT32", 0)>>, F_V2_V4 + F_ARGS),  \* F85E
  Def(63583, "ba_use_sonar", "unknownF85F", <<ArgN("INT32", 0)>>, F_V2_V4 + F_ARGS),  \* F85F
  Def(63584, "clear_score_announce", "unknownF860", <<>>, F_V2_V4),  \* F860
  Def(63585, "set_score_announce", "unknownF861", <<ArgN("INT32", 0)>>, F_V2_V4 + F_ARGS),  \* F861
  Def(63586, "give_s_rank_weapon", NULLSTR, <<ArgN("REG32", 0), ArgN("REG32", 0), ArgN("CSTRING", 0)>>, F_V2),  \* F862
  Def(63586, "give_s_rank_weapon", NULLSTR, <<ArgN("INT32", 0), ArgN("REG", 0), ArgN("CSTRING", 0)>>, F_V3_V4 + F_ARGS),  \* F862
  Def(63587, "get_mag_levels", NULLSTR, <<ArgN("REG32_SET_FIXED", 4)>>, F_V2),  \* F863
  Def(63587, "get_mag_levels", NULLSTR, <<ArgN("REG_SET_FIXED", 4)>>, F_V3_V4),  \* F863
  Def(63588, "set_cmode_rank_result", "cmode_rank", <<ArgN("INT32", 0), ArgN("CSTRING", 0)>>, F_V2_V4 + F_ARGS),  \* F864
  Def(63589, "award_item_name", "award_item_name?", <<>>, F_V2_V4),  \* F865
  Def(63590, "award_item_select", "award_item_select?", <<>>, F_V2_V4),  \* F866
  Def(63591, "award_item_give_to", "award_item_give_to?", <<ArgN("REG", 0)>>, F_V2_V4),  \* F867
  Def(63592, "set_cmode_rank_threshold", "set_cmode_rank", <<ArgN("REG", 0), ArgN("REG", 0)>>, F_V2_V4),  \* F868
  Def(63593, "check_rank_time", NULLSTR, <<ArgN("REG", 0), ArgN("REG", 0)>>, F_V2_V4),  \* F869
  Def(63594, "item_create_cmode", NULLSTR, <<ArgN("REG_SET_FIXED", 6), ArgN("REG", 0)>>, F_V2_V4),  \* F86A
  Def(63595, "ba_set_box_drop_area", "ba_box_drops", <<ArgN("REG", 0)>>, F_V2_V4),  \* F86B
  Def(63596, "award_item_ok", "award_item_ok?", <<ArgN("REG", 0)>>, F_V2_V4),  \* F86C
  Def(63597, "ba_set_trapself", NULLSTR, <<>>, F_V2_V4),  \* F86D
  Def(63598, "ba_clear_trapself", "unknownF86E", <<>>, F_V2_V4),  \* F86E
  Def(63599, "ba_set_lives", NULLSTR, <<ArgN("INT32", 0)>>, F_V2_V4 + F_ARGS),  \* F86F
  Def(63600, "ba_set_max_tech_level", "ba_set_tech_lvl", <<ArgN("INT32", 0)>>, F_V2_V4 + F_ARGS),  \* F870
  Def(63601, "ba_set_char_level", "ba_set_lvl", <<ArgN("INT32", 0)>>, F_V2_V4 + F_ARGS),  \* F871
  Def(63602, "ba_set_time_limit", NULLSTR, <<ArgN("INT32", 0)>>, F_V2_V4 + F_ARGS),  \* F872
  Def(63603, "dark_falz_is_dead", "boss_is_dead?", <<ArgN("REG", 0)>>, F_V2_V4),  \* F873
  Def(63604, "set_cmode_rank_override", NULLSTR, <<ArgN("INT32", 0), ArgN("CSTRING", 0)>>, F_V2_V4 + F_ARGS),  \* F874
  Def(63605, "enable_stealth_suit_effect", NULLSTR, <<ArgN("REG", 0)>>, F_V2_V4),  \* F875
  Def(63606, "disable_stealth_suit_effect", NULLSTR, <<ArgN("REG", 0)>>, F_V2_V4),  \* F876
  Def(63607, "enable_techs", NULLSTR, <<ArgN("REG", 0)>>, F_V2_V4),  \* F877
  Def(63608, "disable_techs", NULLSTR, <<ArgN("REG", 0)>>, F_V2_V4),  \* F878
  Def(63609, "get_gender", NULLSTR, <<ArgN("REG", 0), ArgN("REG", 0)>>, F_V2_V4),  \* F879
  Def(63610, "get_chara_class", NULLSTR, <<ArgN("REG", 0), ArgN("REG_SET_FIXED", 2)>>, F_V2_V4),  \* F87A
  Def(63611, "take_slot_meseta", NULLSTR, <<ArgN("REG_SET_FIXED", 2), ArgN("REG", 0)>>, F_V2_V4),  \* F87B
  Def(63612, "get_guild_card_file_creation_time", NULLSTR, <<ArgN("REG", 0)>>, F_V2_V4),  \* F87C
  Def(63613, "kill_player", NULLSTR, <<ArgN("REG", 0)>>, F_V2_V4),  \* F87D
  Def(63614, "get_serial_number", NULLSTR, <<ArgN("REG", 0)>>, F_V2_V4),  \* F87E
  Def(63615, "get_eventflag", "read_guildcard_flag", <<ArgN("REG", 0), ArgN("REG", 0)>>, F_V2_V4),  \* F87F
  Def(63616, "set_trap_damage", "unknownF880", <<ArgN("REG_SET_FIXED", 3)>>, F_V2_V4),  \* F880
  Def(63617, "get_pl_name", "get_pl_name?", <<ArgN("REG", 0)>>, F_V2_V4),  \* F881
  Def(63618, "get_pl_job", NULLSTR, <<ArgN("REG", 0)>>, F_V2_V4),  \* F882
  Def(63619, "get_player_proximity", "unknownF883", <<ArgN("REG_SET_FIXED", 2), ArgN("REG", 0)>>, F_V2_V4),  \* F883
  Def(63620, "set_eventflag16", NULLSTR, <<ArgN("INT32", 0), ArgN("REG", 0)>>, F_V2),  \* F884
  Def(63620, "set_eventflag16", NULLSTR, <<ArgN("INT32", 0), ArgN("INT32", 0)>>, F_V3_V4 + F_ARGS),  \* F884
  Def(63621, "set_eventflag32", NULLSTR, <<ArgN("INT32", 0), ArgN("REG", 0)>>, F_V2),  \* F885
  Def(63621, "set_eventflag32", NULLSTR, <<ArgN("INT32", 0), ArgN("INT32", 0)>>, F_V3_V4 + F_ARGS),  \* F885
  Def(63622, "ba_get_place", NULLSTR, <<ArgN("REG", 0), ArgN("REG", 0)>>, F_V2_V4),  \* F886
  Def(63623, "ba_get_score", NULLSTR, <<ArgN("REG", 0), ArgN("REG", 0)>>, F_V2_V4),  \* F887
  Def(63624, "enable_win_pfx", "ba_close_msg", <<>>, F_V2_V4),  \* F888
  Def(63625, "disable_win_pfx", NULLSTR, <<>>, F_V2_V4),  \* F889
  Def(63626, "get_player_status", NULLSTR, <<ArgN("REG", 0), ArgN("REG", 0)>>, F_V2_V4),  \* F88A
  Def(63627, "send_mail", NULLSTR, <<ArgN("REG", 0), ArgN("CSTRING", 0)>>, F_V2_V4 + F_ARGS),  \* F88B
  Def(63628, "get_game_version", NULLSTR, <<ArgN("REG", 0)>>, F_V2_V4),  \* F88C
  Def(63629, "chl_set_timerecord", "chl_set_timerecord?", <<ArgN("REG", 0)>>, F_V2 + F_V3),  \* F88D
  Def(63629, "chl_set_timerecord", "chl_set_timerecord?", <<ArgN("REG", 0), ArgN("REG", 0)>>, F_V4),  \* F88D
  Def(63630, "chl_get_timerecord", "chl_get_timerecord?", <<ArgN("REG", 0)>>, F_V2_V4),  \* F88E
  Def(63631, "set_cmode_grave_rates", NULLSTR, <<ArgN("REG_SET_FIXED", 20)>>, F_V2_V4),  \* F88F
  Def(63632, "clear_mainwarp_all", "unknownF890", <<>>, F_V2_V4),  \* F890
  Def(63633, "load_enemy_data", NULLSTR, <<ArgN("INT32", 0)>>, F_V2_V4 + F_ARGS),  \* F891
  Def(63634, "get_physical_data", NULLSTR, <<ArgD("LABEL16", "PLAYER_STATS")>>, F_V2_V4),  \* F892
  Def(63635, "get_attack_data", NULLSTR, <<ArgD("LABEL16", "ATTACK_DATA")>>, F_V2_V4),  \* F893
  Def(63636, "get_resist_data", NULLSTR, <<ArgD("LABEL16", "RESIST_DATA")>>, F_V2_V4),  \* F894
  Def(63637, "get_movement_data", NULLSTR, <<ArgD("LABEL16", "MOVEMENT_DATA")>>, F_V2_V4),  \* F895
  Def(63638, "get_eventflag16", NULLSTR, <<ArgN("REG", 0), ArgN("REG", 0)>>, F_V2_V4),  \* F896
  Def(63639, "get_eventflag32", NULLSTR, <<ArgN("REG", 0), ArgN("REG", 0)>>, F_V2_V4),  \* F897
  Def(63640, "shift_left", NULLSTR, <<ArgN("REG", 0), ArgN("REG", 0)>>, F_V2_V4),  \* F898
  Def(63641, "shift_right", NULLSTR, <<ArgN("REG", 0), ArgN("REG", 0)>>, F_V2_V4),  \* F899
  Def(63642, "get_random", NULLSTR, <<ArgN("REG_SET_FIXED", 2), ArgN("REG", 0)>>, F_V2_V4),  \* F89A
  Def(63643, "reset_map", NULLSTR, <<>>, F_V2_V4),  \* F89B
  Def(63644, "disp_chl_retry_menu", NULLSTR, <<ArgN("REG", 0)>>, F_V2_V4),  \* F89C
  Def(63645, "chl_reverser", "chl_reverser?", <<>>, F_V2_V4),  \* F89D
  Def(63646, "ba_forbid_scape_dolls", "unknownF89E", <<ArgN("INT32", 0)>>, F_V2_V4 + F_ARGS),  \* F89E
  Def(63647, "player_recovery", "unknownF89F", <<ArgN("REG", 0)>>, F_V2_V4),  \* F89F
  Def(63648, "disable_bosswarp_option", "unknownF8A0", <<>>, F_V2_V4),  \* F8A0
  Def(63649, "enable_bosswarp_option", "unknownF8A1", <<>>, F_V2_V4),  \* F8A1
  Def(63650, "is_bosswarp_opt_disabled", NULLSTR, <<ArgN("REG", 0)>>, F_V2_V4),  \* F8A2
  Def(63651, "load_serial_number_to_flag_buf", "init_online_key?", <<>>, F_V2_V4),  \* F8A3
  Def(63652, "write_flag_buf_to_event_flags", "encrypt_gc_entry_auto", <<ArgN("REG", 0)>>, F_V2_V4),  \* F8A4
  Def(63653, "set_chat_callback_no_filter", NULLSTR, <<ArgN("REG_SET_FIXED", 5)>>, F_V2_V4),  \* F8A5
  Def(63654, "set_symbol_chat_collision", NULLSTR, <<ArgN("REG_SET_FIXED", 10)>>, F_V2_V4),  \* F8A6
  Def(63655, "set_shrink_size", NULLSTR, <<ArgN("REG", 0), ArgN("REG_SET_FIXED", 3)>>, F_V2_V4),  \* F8A7
  Def(63656, "death_tech_lvl_up2", NULLSTR, <<ArgN("INT32", 0)>>, F_V2_V4 + F_ARGS),  \* F8A8
  Def(63657, "vol_opt_is_dead", "unknownF8A9", <<ArgN("REG", 0)>>, F_V2_V4),  \* F8A9
  Def(63658, "is_there_grave_message", NULLSTR, <<ArgN("REG", 0)>>, F_V2_V4),  \* F8AA
  Def(63659, "get_ba_record", NULLSTR, <<ArgN("REG_SET_FIXED", 7)>>, F_V2_V4),  \* F8AB
  Def(63660, "get_cmode_prize_rank", NULLSTR, <<ArgN("REG", 0)>>, F_V2_V4),  \* F8AC
  Def(63661, "get_number_of_players2", NULLSTR, <<ArgN("REG", 0)>>, F_V2_V4),  \* F8AD
  Def(63662, "party_has_name", NULLSTR, <<ArgN("REG", 0)>>, F_V2_V4),  \* F8AE
  Def(63663, "someone_has_spoken", NULLSTR, <<ArgN("REG", 0)>>, F_V2_V4),  \* F8AF
  Def(63664, "read1", NULLSTR, <<ArgN("REG", 0), ArgN("REG", 0)>>, F_V2),  \* F8B0
  Def(63664, "read1", NULLSTR, <<ArgN("REG", 0), ArgN("INT32", 0)>>, F_V3_V4 + F_ARGS),  \* F8B0
  Def(63665, "read2", NULLSTR, <<ArgN("REG", 0), ArgN("REG", 0)>>, F_V2),  \* F8B1
  Def(63665, "read2", NULLSTR, <<ArgN("REG", 0), ArgN("INT32", 0)>>, F_V3_V4 + F_ARGS),  \* F8B1
  Def(63666, "read4", NULLSTR, <<ArgN("REG", 0), ArgN("REG", 0)>>, F_V2),  \* F8B2
  Def(63666, "read4", NULLSTR, <<ArgN("REG", 0), ArgN("INT32", 0)>>, F_V3_V4 + F_ARGS),  \* F8B2
  Def(63667, "write1", NULLSTR, <<ArgN("REG", 0), ArgN("REG", 0)>>, F_V2),  \* F8B3
  Def(63667, "write1", NULLSTR, <<ArgN("INT32", 0), ArgN("INT32", 0)>>, F_V3_V4 + F_ARGS),  \* F8B3
  Def(63668, "write2", NULLSTR, <<ArgN("REG", 0), ArgN("REG", 0)>>, F_V2),  \* F8B4
  Def(63668, "write2", NULLSTR, <<ArgN("INT32", 0), ArgN("INT32", 0)>>, F_V3_V4 + F_ARGS),  \* F8B4
  Def(63669, "write4", NULLSTR, <<ArgN("REG", 0), ArgN("REG", 0)>>, F_V2),  \* F8B5
  Def(63669, "write4", NULLSTR, <<ArgN("INT32", 0), ArgN("INT32", 0)>>, F_V3_V4 + F_ARGS),  \* F8B5
  Def(63670, "check_for_hacking", NULLSTR, <<ArgN("REG", 0)>>, F_V2_V4),  \* F8B6
  Def(63671, "unknown_F8B7", NULLSTR, <<ArgN("REG", 0)>>, F_V2_V4),  \* F8B7
  Def(63672, "disable_retry_menu", "unknownF8B8", <<>>, F_V2_V4),  \* F8B8
  Def(63673, "chl_recovery", "chl_recovery?", <<>>, F_V2_V4),  \* F8B9
  Def(63674, "load_guild_card_file_creation_time_to_flag_buf", NULLSTR, <<>>, F_V2_V4),  \* F8BA
  Def(63675, "write_flag_buf_to_event_flags2", NULLSTR, <<ArgN("REG", 0)>>, F_V2_V4),  \* F8BB
  Def(63676, "set_episode", NULLSTR, <<ArgN("INT32", 0)>>, F_V3_V4 + F_SET_EPISODE),  \* F8BC
  Def(63680, "file_dl_req", NULLSTR, <<ArgN("INT32", 0), ArgN("CSTRING", 0)>>, F_V3 + F_ARGS),  \* F8C0
  Def(63680, "nop_F8C0", NULLSTR, <<ArgN("INT32", 0), ArgN("CSTRING", 0)>>, F_V4 + F_ARGS),  \* F8C0
  Def(63681, "get_dl_status", NULLSTR, <<ArgN("REG", 0)>>, F_V3),  \* F8C1
  Def(63681, "nop_F8C1", NULLSTR, <<ArgN("REG", 0)>>, F_V4),  \* F8C1
  Def(63682, "prepare_gba_rom_from_download", "gba_unknown4?", <<>>, F_GC_V3 + F_GC_EP3TE + F_GC_EP3),  \* F8C2
  Def(63682, "nop_F8C2", NULLSTR, <<>>, F_XB_V3 + F_V4),  \* F8C2
  Def(63683, "start_or_update_gba_joyboot", "get_gba_state?", <<ArgN("REG", 0)>>, F_GC_V3 + F_GC_EP3TE + F_GC_EP3),  \* F8C3
  Def(63683, "return_0_F8C3", NULLSTR, <<ArgN("REG", 0)>>, F_XB_V3),  \* F8C3
  Def(63683, "nop_F8C3", NULLSTR, <<ArgN("REG", 0)>>, F_V4),  \* F8C3
  Def(63684, "congrats_msg_multi_cm", "unknownF8C4", <<ArgN("REG", 0)>>, F_V3),  \* F8C4
  Def(63684, "nop_F8C4", NULLSTR, <<ArgN("REG", 0)>>, F_V4),  \* F8C4
  Def(63685, "stage_end_multi_cm", "unknownF8C5", <<ArgN("REG", 0)>>, F_V3),  \* F8C5
  Def(63685, "nop_F8C5", NULLSTR, <<ArgN("REG", 0)>>, F_V4),  \* F8C5
  Def(63686, "qexit", "QEXIT", <<>>, F_V3_V4),  \* F8C6
  Def(63687, "use_animation", NULLSTR, <<ArgN("REG", 0), ArgN("REG", 0)>>, F_V3_V4),  \* F8C7
  Def(63688, "stop_animation", NULLSTR, <<ArgN("REG", 0)>>, F_V3_V4),  \* F8C8
  Def(63689, "run_to_coord", NULLSTR, <<ArgN("REG_SET_FIXED", 4), ArgN("REG", 0)>>, F_V3_V4),  \* F8C9
  Def(63690, "set_slot_invincible", NULLSTR, <<ArgN("REG", 0), ArgN("REG", 0)>>, F_V3_V4),  \* F8CA
  Def(63691, "clear_slot_invincible", "unknownF8CB", <<ArgN("REG", 0)>>, F_V3_V4),  \* F8CB
  Def(63692, "set_slot_poison", NULLSTR, <<ArgN("REG", 0)>>, F_V3_V4),  \* F8CC
  Def(63693, "set_slot_paralyze", NULLSTR, <<ArgN("REG", 0)>>, F_V3_V4),  \* F8CD
  Def(63694, "set_slot_shock", NULLSTR, <<ArgN("REG", 0)>>, F_V3_V4),  \* F8CE
  Def(63695, "set_slot_freeze", NULLSTR, <<ArgN("REG", 0)>>, F_V3_V4),  \* F8CF
  Def(63696, "set_slot_slow", NULLSTR, <<ArgN("REG", 0)>>, F_V3_V4),  \* F8D0
  Def(63697, "set_slot_confuse", NULLSTR, <<ArgN("REG", 0)>>, F_V3_V4),  \* F8D1
  Def(63698, "set_slot_shifta", NULLSTR, <<ArgN("REG", 0)>>, F_V3_V4),  \* F8D2
  Def(63699, "set_slot_deband", NULLSTR, <<ArgN("REG", 0)>>, F_V3_V4),  \* F8D3
  Def(63700, "set_slot_jellen", NULLSTR, <<ArgN("REG", 0)>>, F_V3_V4),  \* F8D4
  Def(63701, "set_slot_zalure", NULLSTR, <<ArgN("REG", 0)>>, F_V3_V4),  \* F8D5
  Def(63702, "fleti_fixed_camera", NULLSTR, <<ArgN("REG_SET_FIXED", 6)>>, F_V3_V4 + F_ARGS),  \* F8D6
  Def(63703, "fleti_locked_camera", NULLSTR, <<ArgN("INT32", 0), ArgN("REG_SET_FIXED", 3)>>, F_V3_V4 + F_ARGS),  \* F8D7
  Def(63704, "default_camera_pos2", NULLSTR, <<>>, F_V3_V4),  \* F8D8
  Def(63705, "set_motion_blur", NULLSTR, <<>>, F_V3_V4),  \* F8D9
  Def(63706, "set_screen_bw", "set_screen_b&w", <<>>, F_V3_V4),  \* F8DA
  Def(63707, "get_vector_from_path", "unknownF8DB", <<ArgN("INT32", 0), ArgN("FLOAT32", 0), ArgN("FLOAT32", 0), ArgN("INT32", 0), ArgN("REG_SET_FIXED", 4), SCRIPT16>>, F_V3_V4 + F_ARGS),  \* F8DB
  Def(63708, "npc_action_string", "NPC_action_string", <<ArgN("REG", 0), ArgN("REG", 0), CSTRING_LABEL16>>, F_V3_V4),  \* F8DC
  Def(63709, "get_pad_cond", NULLSTR, <<ArgN("REG", 0), ArgN("REG", 0)>>, F_V3_V4),  \* F8DD
  Def(63710, "get_button_cond", NULLSTR, <<ArgN("REG", 0), ArgN("REG", 0)>>, F_V3_V4),  \* F8DE
  Def(63711, "freeze_enemies", NULLSTR, <<>>, F_V3_V4),  \* F8DF
  Def(63712, "unfreeze_enemies", NULLSTR, <<>>, F_V3_V4),  \* F8E0
  Def(63713, "freeze_everything", NULLSTR, <<>>, F_V3_V4),  \* F8E1
  Def(63714, "unfreeze_everything", NULLSTR, <<>>, F_V3_V4),  \* F8E2
  Def(63715, "restore_hp", NULLSTR, <<ArgN("REG", 0)>>, F_V3_V4),  \* F8E3
  Def(63716, "restore_tp", NULLSTR, <<ArgN("REG", 0)>>, F_V3_V4),  \* F8E4
  Def(63717, "close_chat_bubble", NULLSTR, <<ArgN("REG", 0)>>, F_V3_V4),  \* F8E5
  Def(63718, "move_coords_object", "unknownF8E6", <<ArgN("REG", 0), ArgN("REG_SET_FIXED", 3)>>, F_V3_V4),  \* F8E6
  Def(63719, "at_coords_call_ex", "unknownF8E7", <<ArgN("REG_SET_FIXED", 5), ArgN("REG", 0)>>, F_V3_V4),  \* F8E7
  Def(63720, "at_coords_talk_ex", "unknownF8E8", <<ArgN("REG_SET_FIXED", 5), ArgN("REG", 0)>>, F_V3_V4),  \* F8E8
  Def(63721, "walk_to_coord_call_ex", "unknownF8E9", <<ArgN("REG_SET_FIXED", 5), ArgN("REG", 0)>>, F_V3_V4),  \* F8E9
  Def(63722, "col_npcinr_ex", "unknownF8EA", <<ArgN("REG_SET_FIXED", 6), ArgN("REG", 0)>>, F_V3_V4),  \* F8EA
  Def(63723, "set_obj_param_ex", "unknownF8EB", <<ArgN("REG_SET_FIXED", 6), ArgN("REG", 0)>>, F_V3_V4),  \* F8EB
  Def(63724, "col_plinaw_ex", "unknownF8EC", <<ArgN("REG_SET_FIXED", 9), ArgN("REG", 0)>>, F_V3_V4),  \* F8EC
  Def(63725, "animation_check", NULLSTR, <<ArgN("REG", 0), ArgN("REG", 0)>>, F_V3_V4),  \* F8ED
  Def(63726, "call_image_data", NULLSTR, <<ArgN("INT32", 0), ArgD("LABEL16", "IMAGE_DATA")>>, F_V3_V4 + F_ARGS),  \* F8EE
  Def(63727, "nop_F8EF", "unknownF8EF", <<>>, F_V3_V4),  \* F8EF
  Def(63728, "turn_off_bgm_p2", NULLSTR, <<>>, F_V3_V4),  \* F8F0
  Def(63729, "turn_on_bgm_p2", NULLSTR, <<>>, F_V3_V4),  \* F8F1
  Def(63730, "unknown_F8F2", "load_unk_data", <<ArgN("INT32", 0), ArgN("FLOAT32", 0), ArgN("FLOAT32", 0), ArgN("INT32", 0), ArgN("REG_SET_FIXED", 4), ArgD("LABEL16", "UNKNOWN_F8F2_DATA")>>, F_V3_V4 + F_ARGS),  \* F8F2
  Def(63731, "particle2", NULLSTR, <<ArgN("REG_SET_FIXED", 3), ArgN("INT32", 0), ArgN("FLOAT32", 0)>>, F_V3_V4 + F_ARGS),  \* F8F3
  Def(63745, "dec2float", NULLSTR, <<ArgN("REG", 0), ArgN("REG", 0)>>, F_V3_V4),  \* F901
  Def(63746, "float2dec", NULLSTR, <<ArgN("REG", 0), ArgN("REG", 0)>>, F_V3_V4),  \* F902
  Def(63747, "flet", NULLSTR, <<ArgN("REG", 0), ArgN("REG", 0)>>, F_V3_V4),  \* F903
  Def(63748, "fleti", NULLSTR, <<ArgN("REG", 0), ArgN("FLOAT32", 0)>>, F_V3_V4),  \* F904
  Def(63752, "fadd", NULLSTR, <<ArgN("REG", 0), ArgN("REG", 0)>>, F_V3_V4),  \* F908
  Def(63753, "faddi", NULLSTR, <<ArgN("REG", 0), ArgN("FLOAT32", 0)>>, F_V3_V4),  \* F909
  Def(63754, "fsub", NULLSTR, <<ArgN("REG", 0), ArgN("REG", 0)>>, F_V3_V4),  \* F90A
  Def(63755, "fsubi", NULLSTR, <<ArgN("REG", 0), ArgN("FLOAT32", 0)>>, F_V3_V4),  \* F90B
  Def(63756, "fmul", NULLSTR, <<ArgN("REG", 0), ArgN("REG", 0)>>, F_V3_V4),  \* F90C
  Def(63757, "fmuli", NULLSTR, <<ArgN("REG", 0), ArgN("FLOAT32", 0)>>, F_V3_V4),  \* F90D
  Def(63758, "fdiv", NULLSTR, <<ArgN("REG", 0), ArgN("REG", 0)>>, F_V3_V4),  \* F90E
  Def(63759, "fdivi", NULLSTR, <<ArgN("REG", 0), ArgN("FLOAT32", 0)>>, F_V3_V4),  \* F90F
  Def(63760, "get_total_deaths", "get_unknown_count?", <<CLIENT_ID, ArgN("REG", 0)>>, F_V3_V4 + F_ARGS),  \* F910
  Def(63761, "get_stackable_item_count", NULLSTR, <<ArgN("REG_SET_FIXED", 4), ArgN("REG", 0)>>, F_V3_V4),  \* F911
  Def(63762, "freeze_and_hide_equip", NULLSTR, <<>>, F_V3_V4),  \* F912
  Def(63763, "thaw_and_show_equip", NULLSTR, <<>>, F_V3_V4),  \* F913
  Def(63764, "set_palettex_callback", "set_paletteX_callback", <<CLIENT_ID, SCRIPT16>>, F_V3_V4 + F_ARGS),  \* F914
  Def(63765, "activate_palettex", "activate_paletteX", <<CLIENT_ID>>, F_V3_V4 + F_ARGS),  \* F915
  Def(63766, "enable_palettex", "enable_paletteX", <<CLIENT_ID>>, F_V3_V4 + F_ARGS),  \* F916
  Def(63767, "restore_palettex", "restore_paletteX", <<CLIENT_ID>>, F_V3_V4 + F_ARGS),  \* F917
  Def(63768, "disable_palettex", "disable_paletteX", <<CLIENT_ID>>, F_V3_V4 + F_ARGS),  \* F918
  Def(63769, "get_palettex_activated", "get_paletteX_activated", <<CLIENT_ID, ArgN("REG", 0)>>, F_V3_V4 + F_ARGS),  \* F919
  Def(63770, "get_unknown_palettex_status", "get_unknown_paletteX_status?", <<CLIENT_ID, ArgN("INT32", 0), ArgN("REG", 0)>>, F_V3_V4 + F_ARGS),  \* F91A
  Def(63771, "disable_movement2", NULLSTR, <<CLIENT_ID>>, F_V3_V4 + F_ARGS),  \* F91B
  Def(63772, "enable_movement2", NULLSTR, <<CLIENT_ID>>, F_V3_V4 + F_ARGS),  \* F91C
  Def(63773, "get_time_played", NULLSTR, <<ArgN("REG", 0)>>, F_V3_V4),  \* F91D
  Def(63774, "get_guildcard_total", NULLSTR, <<ArgN("REG", 0)>>, F_V3_V4),  \* F91E
  Def(63775, "get_slot_meseta", NULLSTR, <<ArgN("REG", 0)>>, F_V3_V4),  \* F91F
  Def(63776, "get_player_level", NULLSTR, <<CLIENT_ID, ArgN("REG", 0)>>, F_V3_V4 + F_ARGS),  \* F920
  Def(63777, "get_section_id", "get_Section_ID", <<CLIENT_ID, ArgN("REG", 0)>>, F_V3_V4 + F_ARGS),  \* F921
  Def(63778, "get_player_hp", NULLSTR, <<CLIENT_ID, ArgN("REG_SET_FIXED", 4)>>, F_V3_V4 + F_ARGS),  \* F922
  Def(63779, "get_floor_number", NULLSTR, <<CLIENT_ID, ArgN("REG_SET_FIXED", 2)>>, F_V3_V4 + F_ARGS),  \* F923
  Def(63780, "get_coord_player_detect", NULLSTR, <<ArgN("REG_SET_FIXED", 3), ArgN("REG_SET_FIXED", 4)>>, F_V3_V4),  \* F924
  Def(63781, "read_counter", "read_global_flag", <<ArgN("INT32", 0), ArgN("REG", 0)>>, F_V3_V4 + F_ARGS),  \* F925
  Def(63782, "write_counter", "write_global_flag", <<ArgN("INT32", 0), ArgN("INT32", 0)>>, F_V3_V4 + F_ARGS),  \* F926
  Def(63783, "item_detect_bank2", "unknownF927", <<ArgN("REG_SET_FIXED", 4), ArgN("REG", 0)>>, F_V3_V4),  \* F927
  Def(63784, "floor_player_detect", NULLSTR, <<ArgN("REG_SET_FIXED", 4)>>, F_V3_V4),  \* F928
  Def(63785, "prepare_gba_rom_from_disk", "read_disk_file?", <<ArgN("CSTRING", 0)>>, F_V3 + F_ARGS),  \* F929
  Def(63785, "nop_F929", NULLSTR, <<ArgN("CSTRING", 0)>>, F_V4 + F_ARGS),  \* F929
  Def(63786, "open_pack_select", NULLSTR, <<>>, F_V3_V4),  \* F92A
  Def(63787, "item_select", NULLSTR, <<ArgN("REG", 0)>>, F_V3_V4),  \* F92B
  Def(63788, "get_item_id", NULLSTR, <<ArgN("REG", 0)>>, F_V3_V4),  \* F92C
  Def(63789, "color_change", NULLSTR, <<ArgN("INT32", 0), ArgN("INT32", 0), ArgN("INT32", 0), ArgN("INT32", 0), ArgN("INT32", 0)>>, F_V3_V4 + F_ARGS),  \* F92D
  Def(63790, "send_statistic", "send_statistic?", <<ArgN("INT32", 0), ArgN("INT32", 0), ArgN("INT32", 0), ArgN("INT32", 0), ArgN("INT32", 0), ArgN("INT32", 0), ArgN("INT32", 0), ArgN("INT32", 0)>>, F_V3_V4 + F_ARGS),  \* F92E
  Def(63791, "gba_write_identifiers", "unknownF92F", <<ArgN("INT32", 0), ArgN("INT32", 0)>>, F_V3 + F_ARGS),  \* F92F
  Def(63791, "nop_F92F", NULLSTR, <<ArgN("INT32", 0), ArgN("INT32", 0)>>, F_V4 + F_ARGS),  \* F92F
  Def(63792, "chat_box", NULLSTR, <<ArgN("INT32", 0), ArgN("INT32", 0), ArgN("INT32", 0), ArgN("INT32", 0), ArgN("INT32", 0), ArgN("CSTRING", 0)>>, F_V3_V4 + F_ARGS),  \* F930
  Def(63793, "chat_bubble", NULLSTR, <<ArgN("INT32", 0), ArgN("CSTRING", 0)>>, F_V3_V4 + F_ARGS),  \* F931
  Def(63794, "set_episode2", NULLSTR, <<ArgN("REG", 0)>>, F_V3_V4),  \* F932
  Def(63795, "item_create_multi_cm", "unknownF933", <<ArgN("REG_SET_FIXED", 7)>>, F_V3),  \* F933
  Def(63795, "nop_F933", NULLSTR, <<ArgN("REG_SET_FIXED", 7)>>, F_V4),  \* F933
  Def(63796, "scroll_text", NULLSTR, <<ArgN("INT32", 0), ArgN("INT32", 0), ArgN("INT32", 0), ArgN("INT32", 0), ArgN("INT32", 0), ArgN("FLOAT32", 0), ArgN("REG", 0), ArgN("CSTRING", 0)>>, F_V3_V4 + F_ARGS),  \* F934
  Def(63797, "gba_create_dl_graph", "gba_unknown1", <<>>, F_GC_V3 + F_GC_EP3TE + F_GC_EP3),  \* F935
  Def(63797, "nop_F935", NULLSTR, <<>>, F_XB_V3 + F_V4),  \* F935
  Def(63798, "gba_destroy_dl_graph", "gba_unknown2", <<>>, F_GC_V3 + F_GC_EP3TE + F_GC_EP3),  \* F936
  Def(63798, "nop_F936", NULLSTR, <<>>, F_XB_V3 + F_V4),  \* F936
  Def(63799, "gba_update_dl_graph", "gba_unknown3", <<>>, F_GC_V3 + F_GC_EP3TE + F_GC_EP3),  \* F937
  Def(63799, "nop_F937", NULLSTR, <<>>, F_XB_V3 + F_V4),  \* F937
  Def(63800, "add_damage_to", "add_damage_to?", <<ArgN("INT32", 0), ArgN("INT32", 0)>>, F_V3_V4 + F_ARGS),  \* F938
  Def(63801, "item_delete3", NULLSTR, <<ArgN("INT32", 0)>>, F_V3_V4 + F_ARGS),  \* F939
  Def(63802, "get_item_info", NULLSTR, <<ITEM_ID, ArgN("REG_SET_FIXED", 12)>>, F_V3_V4 + F_ARGS),  \* F93A
  Def(63803, "item_packing1", NULLSTR, <<ITEM_ID>>, F_V3_V4 + F_ARGS),  \* F93B
  Def(63804, "item_packing2", NULLSTR, <<ITEM_ID, ArgN("INT32", 0)>>, F_V3_V4 + F_ARGS),  \* F93C
  Def(63805, "get_lang_setting", "get_lang_setting?", <<ArgN("REG", 0)>>, F_V3_V4 + F_ARGS),  \* F93D
  Def(63806, "prepare_statistic", "prepare_statistic?", <<ArgN("INT32", 0), ArgN("INT32", 0), ArgN("INT32", 0)>>, F_V3_V4 + F_ARGS),  \* F93E
  Def(63807, "keyword_detect", NULLSTR, <<>>, F_V3_V4),  \* F93F
  Def(63808, "keyword", NULLSTR, <<ArgN("REG", 0), ArgN("INT32", 0), ArgN("CSTRING", 0)>>, F_V3_V4 + F_ARGS),  \* F940
  Def(63809, "get_guildcard_num", NULLSTR, <<CLIENT_ID, ArgN("REG", 0)>>, F_V3_V4 + F_ARGS),  \* F941
  Def(63810, "get_recent_symbol_chat", NULLSTR, <<ArgN("INT32", 0), ArgN("REG_SET_FIXED", 15)>>, F_V3_V4 + F_ARGS),  \* F942
  Def(63811, "create_symbol_chat_capture_buffer", NULLSTR, <<>>, F_V3_V4),  \* F943
  Def(63812, "get_item_stackability", "get_wrap_status", <<ITEM_ID, ArgN("REG", 0)>>, F_V3_V4 + F_ARGS),  \* F944
  Def(63813, "initial_floor", NULLSTR, <<ArgN("INT32", 0)>>, F_V3_V4 + F_ARGS),  \* F945
  Def(63814, "sin", NULLSTR, <<ArgN("REG", 0), ArgN("INT32", 0)>>, F_V3_V4 + F_ARGS),  \* F946
  Def(63815, "cos", NULLSTR, <<ArgN("REG", 0), ArgN("INT32", 0)>>, F_V3_V4 + F_ARGS),  \* F947
  Def(63816, "tan", NULLSTR, <<ArgN("REG", 0), ArgN("INT32", 0)>>, F_V3_V4 + F_ARGS),  \* F948
  Def(63817, "atan2_int", NULLSTR, <<ArgN("REG", 0), ArgN("FLOAT32", 0), ArgN("FLOAT32", 0)>>, F_V3_V4 + F_ARGS),  \* F949
  Def(63818, "olga_flow_is_dead", "boss_is_dead2?", <<ArgN("REG", 0)>>, F_V3_V4),  \* F94A
  Def(63819, "particle_effect_nc", "particle3", <<ArgN("REG_SET_FIXED", 4)>>, F_V3_V4),  \* F94B
  Def(63820, "player_effect_nc", "unknownF94C", <<ArgN("REG_SET_FIXED", 4)>>, F_V3_V4),  \* F94C
  Def(63821, "has_ep3_save_file", NULLSTR, <<ArgN("REG", 0)>>, F_GC_V3 + F_ARGS),  \* F94D
  Def(63821, "give_card", "is_there_cardbattle?", <<ArgN("REG", 0)>>, F_GC_EP3TE),  \* F94D
  Def(63821, "give_or_take_card", "is_there_cardbattle?", <<ArgN("REG_SET_FIXED", 2)>>, F_GC_EP3),  \* F94D
  Def(63821, "unknown_F94D", NULLSTR, <<ArgN("INT32", 0), ArgN("REG", 0)>>, F_XB_V3 + F_ARGS),  \* F94D
  Def(63821, "nop_F94D", NULLSTR, <<>>, F_V4),  \* F94D
  Def(63822, "nop_F94E", NULLSTR, <<>>, F_V4),  \* F94E
  Def(63823, "nop_F94F", NULLSTR, <<>>, F_V4),  \* F94F
  Def(63824, "bb_p2_menu", "BB_p2_menu", <<ArgN("INT32", 0)>>, F_V4 + F_ARGS),  \* F950
  Def(63825, "bb_map_designate", "BB_Map_Designate", <<ArgN("INT8", 0), ArgN("INT8", 0), ArgN("INT8", 0), ArgN("INT8", 0), ArgN("INT8", 0)>>, F_V4),  \* F951
  Def(63826, "bb_get_number_in_pack", "BB_get_number_in_pack", <<ArgN("REG", 0)>>, F_V4),  \* F952
  Def(63827, "bb_swap_item", "BB_swap_item", <<ArgN("INT32", 0), ArgN("INT32", 0), ArgN("INT32", 0), ArgN("INT32", 0), ArgN("INT32", 0), ArgN("INT32", 0), SCRIPT16, SCRIPT16>>, F_V4 + F_ARGS),  \* F953
  Def(63828, "bb_check_wrap", "BB_check_wrap", <<ArgN("INT32", 0), ArgN("REG", 0)>>, F_V4 + F_ARGS),  \* F954
  Def(63829, "bb_exchange_pd_item", "BB_exchange_PD_item", <<ArgN("INT32", 0), ArgN("INT32", 0), ArgN("INT32", 0), ArgN("LABEL16", 0), ArgN("LABEL16", 0)>>, F_V4 + F_ARGS),  \* F955
  Def(63830, "bb_exchange_pd_srank", "BB_exchange_PD_srank", <<ArgN("INT32", 0), ArgN("INT32", 0), ArgN("INT32", 0), ArgN("INT32", 0), ArgN("INT32", 0), ArgN("LABEL16", 0), ArgN("LABEL16", 0)>>, F_V4 + F_ARGS),  \* F956
  Def(63831, "bb_exchange_pd_percent", "BB_exchange_PD_special", <<ArgN("INT32", 0), ArgN("INT32", 0), ArgN("INT32", 0), ArgN("INT32", 0), ArgN("INT32", 0), ArgN("INT32", 0), ArgN("LABEL16", 0), ArgN("LABEL16", 0)>>, F_V4 + F_ARGS),  \* F957
  Def(63832, "bb_exchange_ps_percent", "BB_exchange_PD_percent", <<ArgN("INT32", 0), ArgN("INT32", 0), ArgN("INT32", 0), ArgN("INT32", 0), ArgN("INT32", 0), ArgN("INT32", 0), ArgN("LABEL16", 0), ArgN("LABEL16", 0)>>, F_V4 + F_ARGS),  \* F958
  Def(63833, "bb_set_ep4_boss_can_escape", "unknownF959", <<ArgN("INT32", 0)>>, F_V4 + F_ARGS),  \* F959
  Def(63834, "bb_is_ep4_boss_dying", NULLSTR, <<ArgN("REG", 0)>>, F_V4),  \* F95A
  Def(63835, "bb_send_6xD9", NULLSTR, <<ArgN("INT32", 0), ArgN("INT32", 0), ArgN("INT32", 0), ArgN("INT32", 0), ArgN("LABEL16", 0), ArgN("LABEL16", 0)>>, F_V4 + F_ARGS),  \* F95B
  Def(63836, "bb_exchange_slt", "BB_exchange_SLT", <<ArgN("INT32", 0), ArgN("INT32", 0), ArgN("INT32", 0), ArgN("INT32", 0)>>, F_V4 + F_ARGS),  \* F95C
  Def(63837, "bb_exchange_pc", "BB_exchange_PC", <<>>, F_V4),  \* F95D
  Def(63838, "bb_box_create_bp", "BB_box_create_BP", <<ArgN("INT32", 0), ArgN("FLOAT32", 0), ArgN("FLOAT32", 0)>>, F_V4 + F_ARGS),  \* F95E
  Def(63839, "bb_exchange_pt", "BB_exchage_PT", <<ArgN("INT32", 0), ArgN("INT32", 0), ArgN("INT32", 0), ArgN("INT32", 0), ArgN("INT32", 0)>>, F_V4 + F_ARGS),  \* F95F
  Def(63840, "bb_send_6xE2", "unknownF960", <<ArgN("INT32", 0)>>, F_V4 + F_ARGS),  \* F960
  Def(63841, "bb_get_6xE3_status", "unknownF961", <<ArgN("REG", 0)>>, F_V4)  \* F961
  >>

NumDefs == Len(opcode_defs)

-----------------------------------------------------------------------------
(* Lazily built lookup indexes (QuestScript.cc 881-928).                   *)

\* unordered_map::emplace(key, &def).second is false: the key is present
EmplaceFailsNever(index, key) == FALSE
EmplaceFails(index, key) == key \in DOMAIN index

\* the map after a successful emplace
Emplaced(index, key, z) == (key :> z) @@ index

\* One pass of the loop body of opcodes_for_version on row z (def):
\* [threw, index] after it.
OpcodeIndexRow(index, vf, z, def) ==
  IF ~BitSet(def.flags, vf) THEN [threw |-> FALSE, index |-> index]
  ELSE IF EmplaceFails(index, def.opcode) THEN [threw |-> TRUE, index |-> index]
  ELSE [threw |-> FALSE, index |-> Emplaced(index, def.opcode, z)]

\* One pass of the loop body of opcodes_by_name_for_version on row z (def).
NameIndexRow(index, vf, z, def) ==
  IF ~BitSet(def.flags, vf) THEN [threw |-> FALSE, index |-> index]
  ELSE IF def.name # NULLSTR /\ EmplaceFails(index, def.name)
    THEN [threw |-> TRUE, index |-> index]
  ELSE
    LET i1 == IF def.name # NULLSTR THEN Emplaced(index, def.name, z) ELSE index IN
    IF def.qedit_name # NULLSTR /\ EmplaceFails(i1, def.qedit_name)
      THEN [threw |-> TRUE, index |-> i1]
    ELSE [threw |-> FALSE,
          index |-> IF def.qedit_name # NULLSTR THEN Emplaced(i1, def.qedit_name, z) ELSE i1]

\* The rows of defs active in the build with flag vf
ActiveRowsOf(defs, vf) == {z \in DOMAIN defs : BitSet(defs[z].flags, vf)}

\* The keys the body of the by-name loop emplaces for a row: name, then qedit_name
NameKeys(def) == {def.name, def.qedit_name} \ {NULLSTR}

\* The whole loop of opcodes_for_version over the table defs: whether an
\* emplace fails, and the index of the rows before the first that does.
BuildOpcodeIndex(defs, vf) ==
  LET act == ActiveRowsOf(defs, vf)
      fails == {z \in act : \E y \in act : y < z /\ defs[y].opcode = defs[z].opcode}
      kept == {z \in act : \A y \in fails : z < y} IN
  [threw |-> fails # {},
   index |-> [k \in {defs[z].opcode : z \in kept} |-> CHOOSE z \in kept : defs[z].opcode = k]]

\* The whole loop of opcodes_by_name_for_version over the table defs.
BuildNameIndex(defs, vf) ==
  LET act == ActiveRowsOf(defs, vf)
      fails == {z \in act :
                  \/ \E y \in act : y < z /\ NameKeys(defs[y]) \cap NameKeys(defs[z]) # {}
                  \/ defs[z].name # NULLSTR /\ defs[z].name = defs[z].qedit_name}
      kept == {z \in act : \A y \in fails : z < y} IN
  [threw |-> fails # {},
   index |-> [k \in UNION {NameKeys(defs[z]) : z \in kept} |-> CHOOSE z \in kept : k \in NameKeys(defs[z])]]

EmptyIndex == [k \in {} |-> 0]

\* opcodes_for_version(v): opcode -> row, for a build whose index builds
opcodes_for_version(v) == BuildOpcodeIndex(opcode_defs, v_flag(v)).index
\* opcodes_by_name_for_version(v): mnemonic -> row
opcodes_by_name_for_version(v) == BuildNameIndex(opcode_defs, v_flag(v)).index

\* static array<unordered_map<...>, NUM_VERSIONS> indexes of the two functions
opcode_indexes == [v \in IndexedVersions |-> opcodes_for_version(v)]
name_indexes == [v \in IndexedVersions |-> opcodes_by_name_for_version(v)]

\* opcodes.at(opcode) on the index of build v: the row, or 0 for out_of_range
opcode_at(v, opcode) ==
  IF opcode \in DOMAIN opcode_indexes[v] THEN opcode_indexes[v][opcode] ELSE 0

\* a lookup by name that finds the first row for every name
name_at_first_row(v, name) == 1
\* opcodes.at(name) on the by-name index of build v: the row, or 0 for out_of_range
name_at(v, name) ==
  IF name \in DOMAIN name_indexes[v] THEN name_indexes[v][name] ELSE 0

IxIdle == ix_call = [fn |-> "none", v |-> 0] /\ ix_z = 0 /\ ix_index = EmptyIndex /\ ix_pc = "idle"

IxInit ==
  /\ ix_call \in [fn : {"opcodes_for_version", "opcodes_by_name_for_version"}, v : IndexedVersions]
  /\ ix_z = 1
  /\ ix_index = EmptyIndex
  /\ ix_pc = "loop"

\* for (z = 0; z < sizeof(opcode_defs) / sizeof(opcode_defs[0]); z++) { ... }
IndexLoopBody ==
  /\ ix_pc = "loop"
  /\ ix_z <= NumDefs
  /\ \E def \in {opcode_defs[ix_z]} :
     \E r \in {IF ix_call.fn = "opcodes_for_version"
                THEN OpcodeIndexRow(ix_index, v_flag(ix_call.v), ix_z, def)
                ELSE NameIndexRow(ix_index, v_flag(ix_call.v), ix_z, def)} :
     /\ ix_index' = r.index
     /\ ix_pc' = IF r.threw THEN "threw" ELSE "loop"
     /\ ix_z' = IF r.threw THEN ix_z ELSE ix_z + 1
  /\ UNCHANGED ix_call

\* return index;
IndexReturn ==
  /\ ix_pc = "loop"
  /\ ix_z > NumDefs
  /\ ix_pc' = "returned"
  /\ UNCHANGED <<ix_call, ix_z, ix_index>>

-----------------------------------------------------------------------------
(* Opcode bytes: what the assembler writes and the disassembler reads      *)
(* (QuestScript.cc 2300-2307, 2536-2542 and 1158-1161).                    *)

put_u8(v) == <<v % 256>>
put_u16b(v) == <<(v \div 256) % 256, v % 256>>
put_u16l(v) == <<v % 256, (v \div 256) % 256>>
put_u32l(v) == <<v % 256, (v \div 256) % 256, (v \div 65536) % 256, (v \div 16777216) % 256>>

\* if ((opcode_def->opcode & 0xFF00) == 0x0000) put_u8 else put_u16b
put_opcode(opcode) ==
  IF (opcode \div 256) % 256 = 0 THEN put_u8(opcode) ELSE put_u16b(opcode)

\* (opcode & 0xFE) == 0xF8
IsPrefixByteExact(b) == b = 248
IsPrefixByte(b) == b - (b % 2) = 248

\* StringReader::get_u8 and friends on code (a sequence of bytes) at offset where:
\* they throw out_of_range, without advancing, when the bytes are not all there.
CanGet(code, where, n) == where + n <= Len(code)
get_u8(code, where) == code[where + 1]
get_u16l(code, where) == code[where + 1] + 256 * code[where + 2]
get_u32l(code, where) == code[where + 1] + 256 * code[where + 2]
                         + 65536 * code[where + 3] + 16777216 * code[where + 4]

\* an opcode read that leaves the reader where it was
ReadOpcodePeek(code, where) ==
  [ok |-> where < Len(code), opcode |-> IF where < Len(code) THEN code[where + 1] ELSE 0,
   where |-> where]

\* uint16_t opcode = cmd_r.get_u8(); if ((opcode & 0xFE) == 0xF8) opcode = (opcode << 8) | cmd_r.get_u8();
\* [ok, opcode, where]: ok is FALSE when a get_u8 threw (where is then where the reader stands).
ReadOpcode(code, where) ==
  IF ~CanGet(code, where, 1) THEN [ok |-> FALSE, opcode |-> 0, where |-> where]
  ELSE LET b == get_u8(code, where) IN
    IF ~IsPrefixByte(b) THEN [ok |-> TRUE, opcode |-> b, where |-> where + 1]
    ELSE IF ~CanGet(code, where + 1, 1) THEN [ok |-> FALSE, opcode |-> b, where |-> where + 1]
    ELSE [ok |-> TRUE, opcode |-> (b * 256 + get_u8(code, where + 1)) % 65536, where |-> where + 2]

ObIdle ==
  /\ ob_row = 0 /\ ob_reg = 0 /\ ob_bytes = <<>>
  /\ ob_read = [ok |-> FALSE, opcode |-> 0, where |-> 0] /\ ob_pc = "idle"

ObInit ==
  /\ ob_row \in 1 .. NumDefs
  /\ ob_reg \in {5, 255}
  /\ ob_bytes = <<>>
  /\ ob_read = [ok |-> FALSE, opcode |-> 0, where |-> 0]
  /\ ob_pc = "start"

\* a row whose line is assembled without the arg stack on every build and
\* takes one register: the opcode is followed by add_reg's put_u8(reg->number)
TakesOneReg(def) == def.args = <<ArgN("REG", 0)>> /\ ~BitSet(def.flags, F_ARGS)

\* the assembler writes the opcode of the row (use_args or not, the bytes are
\* the same) and, for a row that takes one register, the number of r<ob_reg>
ObEmit ==
  /\ ob_pc = "start"
  /\ \E def \in {opcode_defs[ob_row]} :
       ob_bytes' = put_opcode(def.opcode) \o (IF TakesOneReg(def) THEN put_u8(ob_reg) ELSE <<>>)
  /\ ob_pc' = "emitted"
  /\ UNCHANGED <<ob_row, ob_reg, ob_read>>

\* the disassembler reads an opcode at the start of those bytes
ObRead ==
  /\ ob_pc = "emitted"
  /\ ob_read' = ReadOpcode(ob_bytes, 0)
  /\ ob_pc' = "read"
  /\ UNCHANGED <<ob_row, ob_reg, ob_bytes>>

-----------------------------------------------------------------------------
(* The episode detector (QuestScript.cc 1685-1844).                        *)

VARIABLES
  ep_in,      \* the quest file: [version, episode (header byte), prog, fn0, table_last]
  ep_data,    \* the bytes from code_offset to the end of the file
  ep_where,   \* cmd_r's position in ep_data
  ep_header,  \* header_episode
  ep_found,   \* found_episodes
  ep_error,   \* what() of the exception the walk's try block caught, "" when none
  ep_result,  \* [kind, episode, what] once the call ended
  ep_pc       \* "idle" | "start" | "try" | "walk" | "after" | "done"

epVars == <<ep_in, ep_data, ep_where, ep_header, ep_found, ep_error, ep_result, ep_pc>>

\* Episode episode_for_quest_episode_number(uint8_t episode_number):
\* the parameter conversion keeps the low byte of what the caller passes
episode_for_quest_episode_number(n) ==
  LET episode_number == n % 256 IN
  IF episode_number \in {0, 255} THEN [ok |-> TRUE, episode |-> "EP1"]
  ELSE IF episode_number = 1 THEN [ok |-> TRUE, episode |-> "EP2"]
  ELSE IF episode_number = 2 THEN [ok |-> TRUE, episode |-> "EP4"]
  ELSE [ok |-> FALSE, episode |-> "NONE"]

\* for (ch = get_u8(); ch; ch = get_u8()) {} and its get_u16l form:
\* the position after the terminator, or ok = FALSE when the data ends first
RECURSIVE SkipCString(_, _, _)
SkipCString(code, where, width) ==
  IF ~CanGet(code, where, width) THEN [ok |-> FALSE, where |-> where]
  ELSE LET ch == IF width = 1 THEN get_u8(code, where) ELSE get_u16l(code, where) IN
       IF ch = 0 THEN [ok |-> TRUE, where |-> where + width]
       ELSE SkipCString(code, where + width, width)

\* One case of the detector's switch (arg.type): [threw, where, found].
\* Skip is cmd_r.skip(n), which moves the reader without looking at the data;
\* Throw leaves the reader where it stands; Found takes what
\* episode_for_quest_episode_number(get_u32l()) returned and SkippedString
\* where the scan for the terminator ended.
EpisodeSkipArg(code, where, arg, flags, use_wstrs, found) ==
  LET Skip(n) == [threw |-> "", where |-> where + n, found |-> found]
      Throw(what) == [threw |-> what, where |-> where, found |-> found]
      Found(e) ==
        IF e.ok THEN [threw |-> "", where |-> where + 4, found |-> found \cup {e.episode}]
        ELSE [threw |-> "invalid episode number", where |-> where + 4, found |-> found]
      SkippedString(s) ==
        [threw |-> IF s.ok THEN "" ELSE "out_of_range", where |-> s.where, found |-> found] IN
  CASE arg.type = "LABEL16" -> Skip(2)
    [] arg.type = "LABEL32" -> Skip(4)
    [] arg.type = "LABEL16_SET" ->
         IF BitSet(flags, F_PASS) THEN Throw("LABEL16_SET cannot be pushed to arg stack")
         ELSE IF ~CanGet(code, where, 1) THEN Throw("out_of_range")
         ELSE Skip(1 + get_u8(code, where) * 2)
    [] arg.type = "REG" -> Skip(1)
    [] arg.type = "REG_SET" ->
         IF BitSet(flags, F_PASS) THEN Throw("REG_SET cannot be pushed to arg stack")
         ELSE IF ~CanGet(code, where, 1) THEN Throw("out_of_range")
         ELSE Skip(1 + get_u8(code, where))
    [] arg.type = "REG_SET_FIXED" ->
         IF BitSet(flags, F_PASS) THEN Throw("REG_SET_FIXED cannot be pushed to arg stack")
         ELSE Skip(1)
    [] arg.type = "REG32_SET_FIXED" ->
         IF BitSet(flags, F_PASS) THEN Throw("REG32_SET_FIXED cannot be pushed to arg stack")
         ELSE Skip(4)
    [] arg.type = "INT8" -> Skip(1)
    [] arg.type = "INT16" -> Skip(2)
    [] arg.type = "INT32" ->
         IF BitSet(flags, F_SET_EPISODE) THEN
           IF ~CanGet(code, where, 4) THEN Throw("out_of_range")
           ELSE Found(episode_for_quest_episode_number(get_u32l(code, where)))
         ELSE Skip(4)
    [] arg.type = "FLOAT32" -> Skip(4)
    [] arg.type = "CSTRING" ->
         SkippedString(SkipCString(code, where, IF use_wstrs THEN 2 ELSE 1))
    [] OTHER -> Throw("invalid argument type")

\* for (const auto& arg : def->args) { switch ... } from argument i on, r being
\* what the arguments before i left: [threw, where, found]
RECURSIVE EpisodeSkipArgs(_, _, _, _, _, _)
EpisodeSkipArgs(code, r, args, i, flags, use_wstrs) ==
  IF i > Len(args) \/ r.threw # "" THEN r
  ELSE EpisodeSkipArgs(code, EpisodeSkipArg(code, r.where, args[i], flags, use_wstrs, r.found),
                       args, i + 1, flags, use_wstrs)

\* One pass of the body of while (!cmd_r.eof()): [threw, break, where, found].
\* Opcode takes the opcode read (o) and its index row (z, 0 when there is
\* none); Known is the body from the F_RET test on.
EpisodeWalkBody(code, where, v, use_wstrs, found) ==
  LET Known(o_where, def) ==
        IF BitSet(def.flags, F_RET) THEN [threw |-> "", break |-> TRUE, where |-> o_where, found |-> found]
        ELSE IF BitSet(def.flags, F_ARGS) THEN [threw |-> "", break |-> FALSE, where |-> o_where, found |-> found]
        ELSE [break |-> FALSE] @@
             EpisodeSkipArgs(code, [threw |-> "", where |-> o_where, found |-> found], def.args, 1, def.flags, use_wstrs)
      Opcode(o, z) ==
        IF ~o.ok THEN [threw |-> "out_of_range", break |-> FALSE, where |-> o.where, found |-> found]
        ELSE IF z = 0 THEN [threw |-> "unknown quest opcode", break |-> FALSE, where |-> o.where, found |-> found]
        ELSE Known(o.where, opcode_defs[z])
      Read(o) == Opcode(o, IF o.ok THEN opcode_at(v, o.opcode) ELSE 0) IN
  Read(ReadOpcode(code, where))

\* the mutant's result rule: the header's episode whatever was found
EpisodeResultHeaderOnly(found, header_episode) ==
  [kind |-> "returned", episode |-> header_episode, what |-> ""]
\* the lines after the catch: by found_episodes.size()
EpisodeResult(found, header_episode) ==
  IF Cardinality(found) > 1 THEN [kind |-> "threw", episode |-> "NONE", what |-> "multiple episodes found"]
  ELSE IF Cardinality(found) = 1 THEN [kind |-> "returned", episode |-> CHOOSE e \in found : TRUE, what |-> ""]
  ELSE [kind |-> "returned", episode |-> header_episode, what |-> ""]

\* --- the quest files the detector is run on ---

\* longest function body, in instructions
MaxEpInstrs == 2

\* the instructions the files are made of: the detector sees only their bytes
EpInstrs ==
  {[op |-> "ret", lit |-> 0], [op |-> "unknown", lit |-> 0],
   [op |-> "arg_pushl", lit |-> 0], [op |-> "arg_pushs", lit |-> 0], [op |-> "truncated", lit |-> 1]}
  \cup {[op |-> "set_episode", lit |-> k] : k \in {0, 1, 2, 3, 256}}

\* the bytes of one instruction for build v (strings are 16-bit on BB_V4)
EpInstrBytes(i, v) ==
  CASE i.op = "ret" -> <<1>>
    [] i.op = "unknown" -> <<14>>
    [] i.op = "set_episode" -> put_u16b(63676) \o put_u32l(i.lit)
    [] i.op = "truncated" -> put_u16b(63676) \o <<i.lit>>
    [] i.op = "arg_pushl" -> <<73>> \o put_u16b(63676) \o <<1, 0>>
    [] i.op = "arg_pushs" -> IF v = BB_V4 THEN <<78, 65, 0, 0, 0>> ELSE <<78, 65, 0>>

RECURSIVE EpProgBytes(_, _)
EpProgBytes(prog, v) ==
  IF prog = <<>> THEN <<>> ELSE EpInstrBytes(Head(prog), v) \o EpProgBytes(Tail(prog), v)

EpPrograms ==
  {p \in UNION {[1 .. n -> EpInstrs] : n \in 0 .. MaxEpInstrs} :
     \A i \in DOMAIN p : p[i].op = "truncated" => i = Len(p)}

EpIdle ==
  /\ ep_in = [version |-> 0, episode |-> 0, prog |-> <<>>, fn0 |-> 0, table_last |-> FALSE]
  /\ ep_data = <<>> /\ ep_where = 0 /\ ep_header = "NONE" /\ ep_found = {}
  /\ ep_error = "" /\ ep_result = [kind |-> "none", episode |-> "NONE", what |-> ""]
  /\ ep_pc = "idle"

\* A file with one function: its body starts at instruction fn0 of the code; the
\* function table lies after the code (as the assembler lays it out) or before it.
EpInit ==
  /\ ep_in \in {f \in [version : {DC_V2, GC_NTE, GC_V3, BB_V4}, episode : {1, 3, 255},
                       prog : EpPrograms, fn0 : 0 .. 1, table_last : BOOLEAN] : f.fn0 <= Len(f.prog)}
  /\ ep_data = <<>> /\ ep_where = 0 /\ ep_header = "NONE" /\ ep_found = {}
  /\ ep_error = "" /\ ep_result = [kind |-> "none", episode |-> "NONE", what |-> ""]
  /\ ep_pc = "start"

\* switch (version): the early return, or the header read
EpisodeReadHeader ==
  /\ ep_pc = "start"
  /\ IF ep_in.version \in {DC_NTE, DC_V1_11_2000_PROTOTYPE, DC_V1, DC_V2, PC_NTE, PC_V2} THEN
       /\ ep_result' = [kind |-> "returned", episode |-> "EP1", what |-> ""]
       /\ ep_pc' = "done"
       /\ UNCHANGED ep_header
     ELSE IF ep_in.version \in {GC_NTE, GC_V3, GC_EP3_NTE, GC_EP3, XB_V3, BB_V4} THEN
       LET e == episode_for_quest_episode_number(ep_in.episode) IN
       IF e.ok THEN ep_header' = e.episode /\ ep_pc' = "try" /\ UNCHANGED ep_result
       ELSE /\ ep_result' = [kind |-> "threw", episode |-> "NONE", what |-> "invalid episode number"]
            /\ ep_pc' = "done"
            /\ UNCHANGED ep_header
     ELSE
       /\ ep_result' = [kind |-> "threw", episode |-> "NONE", what |-> "invalid quest version"]
       /\ ep_pc' = "done"
       /\ UNCHANGED ep_header
  /\ UNCHANGED <<ep_in, ep_data, ep_where, ep_found, ep_error>>

\* cmd_r = r.sub(code_offset + r.pget_u32l(function_table_offset))
EpisodeEnterWalk ==
  /\ ep_pc = "try"
  /\ LET code == EpProgBytes(ep_in.prog, ep_in.version)
         fn0_offset == Len(EpProgBytes(SubSeq(ep_in.prog, 1, ep_in.fn0), ep_in.version)) IN
     /\ ep_data' = (IF ep_in.table_last THEN code \o put_u32l(fn0_offset) ELSE code)
     /\ ep_where' = fn0_offset
  /\ ep_pc' = "walk"
  /\ UNCHANGED <<ep_in, ep_header, ep_found, ep_error, ep_result>>

\* one pass of while (!cmd_r.eof()) { ... }
EpisodeWalkStep ==
  /\ ep_pc = "walk"
  /\ ep_where < Len(ep_data)
  /\ \E r \in {EpisodeWalkBody(ep_data, ep_where, ep_in.version, ep_in.version = BB_V4, ep_found)} :
       /\ ep_where' = r.where
       /\ ep_found' = r.found
       /\ ep_error' = r.threw
       /\ ep_pc' = IF r.threw # "" \/ r.break THEN "after" ELSE "walk"
  /\ UNCHANGED <<ep_in, ep_data, ep_header, ep_result>>

\* the loop ends at eof
EpisodeWalkEof ==
  /\ ep_pc = "walk"
  /\ ep_where >= Len(ep_data)
  /\ ep_pc' = "after"
  /\ UNCHANGED <<ep_in, ep_data, ep_where, ep_header, ep_found, ep_error, ep_result>>

\* after the catch: throw or return
EpisodeFinish ==
  /\ ep_pc = "after"
  /\ ep_result' = EpisodeResult(ep_found, ep_header)
  /\ ep_pc' = "done"
  /\ UNCHANGED <<ep_in, ep_data, ep_where, ep_header, ep_found, ep_error>>

-----------------------------------------------------------------------------
(* RegisterAssigner (QuestScript.cc 1846-2028) and the register parsers    *)
(* of the assembler that feed it (2158-2236).                              *)

VARIABLES
  ra,         \* the RegisterAssigner: [regs, named_regs, numbered_regs]
  ra_unassigned, \* assign_all's vector of registers (ids into ra.regs)
  ra_i,       \* assign_all's position in ra_unassigned (1-based)
  ra_tokens,  \* register tokens parsed so far
  ra_pins,    \* <<register, number>> for every token that gave an explicit number
  ra_links,   \* <<first, second>> for every constrain call that returned
  ra_error,   \* what() of the exception thrown, "" when none
  ra_last,    \* the last REG_SET_FIXED argument parsed: [arg, expected_count, threw, regs]
  ra_pc       \* "idle" | "parse" | "assign" | "check" | "done" | "threw" | "hang"

raVars == <<ra, ra_unassigned, ra_i, ra_tokens, ra_pins, ra_links, ra_error, ra_last, ra_pc>>

\* struct Register { name; number = -1; prev; next; }: a register is its place
\* in regs (the identity of the shared_ptr); 0 is the null pointer
NewRegister == [name |-> "", number |-> -1, prev |-> 0, next |-> 0]

RegisterAssignerNew == [regs |-> <<>>, named_regs |-> [n \in {} |-> 0], numbered_regs |-> [n \in {} |-> 0]]

\* numbered_regs.at(number): the register, or null
NumberedAt(numbered_regs, number) ==
  IF number \in DOMAIN numbered_regs THEN numbered_regs[number] ELSE 0

\* x & 0xFF on a possibly negative int
Low8(x) == x % 256

\* shared_ptr<Register> get_or_create(const string& name, int16_t number):
\* [ra, reg, threw]
get_or_create(a, name, number) ==
  IF number < -1 \/ number >= 256 THEN [ra |-> a, reg |-> 0, threw |-> "invalid register number"]
  ELSE
    LET by_name == IF name # "" /\ name \in DOMAIN a.named_regs THEN a.named_regs[name] ELSE 0
        found == IF by_name = 0 /\ number >= 0 THEN NumberedAt(a.numbered_regs, number) ELSE by_name
        reg == IF found = 0 THEN Len(a.regs) + 1 ELSE found
        regs0 == IF found = 0 THEN Append(a.regs, NewRegister) ELSE a.regs
        \* if (number >= 0) { ... }
        sets_number == number >= 0 /\ regs0[reg].number < 0
        regs1 == IF sets_number THEN [regs0 EXCEPT ![reg].number = number] ELSE regs0
        conflict == sets_number /\ NumberedAt(a.numbered_regs, number) # 0
        multiple_numbers == number >= 0 /\ regs0[reg].number >= 0 /\ regs0[reg].number # number
        numbered1 == IF sets_number /\ ~conflict THEN (number :> reg) @@ a.numbered_regs
                     ELSE a.numbered_regs
        \* if (!name.empty()) { ... }
        sets_name == name # "" /\ regs1[reg].name = ""
        regs2 == IF sets_name THEN [regs1 EXCEPT ![reg].name = name] ELSE regs1
        name_taken == sets_name /\ name \in DOMAIN a.named_regs
        multiple_names == name # "" /\ regs1[reg].name # "" /\ regs1[reg].name # name
        named1 == IF sets_name /\ ~name_taken THEN (name :> reg) @@ a.named_regs ELSE a.named_regs
    IN
    IF conflict THEN
      [ra |-> [a EXCEPT !.regs = regs1], reg |-> reg, threw |-> "cannot be assigned due to conflict"]
    ELSE IF multiple_numbers THEN
      [ra |-> [a EXCEPT !.regs = regs0], reg |-> reg, threw |-> "register is assigned multiple numbers"]
    ELSE IF name_taken THEN
      [ra |-> [regs |-> regs2, named_regs |-> a.named_regs, numbered_regs |-> numbered1],
       reg |-> reg, threw |-> "name is already assigned to a different register"]
    ELSE IF multiple_names THEN
      [ra |-> [regs |-> regs1, named_regs |-> a.named_regs, numbered_regs |-> numbered1],
       reg |-> reg, threw |-> "register is assigned multiple names"]
    ELSE
      [ra |-> [regs |-> regs2, named_regs |-> named1, numbered_regs |-> numbered1],
       reg |-> reg, threw |-> ""]

\* void assign_number(shared_ptr<Register> reg, uint8_t number): [ra, threw]
assign_number(a, reg, number) ==
  IF a.regs[reg].number < 0 THEN
    LET a1 == [a EXCEPT !.regs[reg].number = number] IN
    IF NumberedAt(a.numbered_regs, number) # 0
      THEN [ra |-> a1, threw |-> "register number assigned multiple times"]
    ELSE [ra |-> [a1 EXCEPT !.numbered_regs = (number :> reg) @@ a.numbered_regs], threw |-> ""]
  ELSE IF a.regs[reg].number # number
    THEN [ra |-> a, threw |-> "assigning different register number over existing register number"]
  ELSE [ra |-> a, threw |-> ""]

\* void constrain(shared_ptr<Register> first_reg, shared_ptr<Register> second_reg): [ra, threw]
constrain(a, first_reg, second_reg) ==
  LET regs1 == IF a.regs[first_reg].next = 0 THEN [a.regs EXCEPT ![first_reg].next = second_reg]
               ELSE a.regs
      regs2 == IF regs1[second_reg].prev = 0 THEN [regs1 EXCEPT ![second_reg].prev = first_reg]
               ELSE regs1 IN
  IF a.regs[first_reg].next # 0 /\ a.regs[first_reg].next # second_reg THEN
    [ra |-> a, threw |-> "must come after, but is already constrained to another register"]
  ELSE IF regs1[second_reg].prev # 0 /\ regs1[second_reg].prev # first_reg THEN
    [ra |-> [a EXCEPT !.regs = regs1],
     threw |-> "must come before, but is already constrained to another register"]
  ELSE IF /\ regs2[first_reg].number >= 0 /\ regs2[second_reg].number >= 0
          /\ regs2[first_reg].number # Low8(regs2[second_reg].number - 1) THEN
    [ra |-> [a EXCEPT !.regs = regs2],
     threw |-> "both registers already have non-consecutive numbers"]
  ELSE [ra |-> [a EXCEPT !.regs = regs2], threw |-> ""]

\* uint8_t find_register_number_space(size_t num_regs) const: the first candidate
\* whose num_regs slots are all free, or -1 for the runtime_error. numbered_regs
\* has 0x100 slots; numbered_regs[candidate + z] past them reads whatever lies
\* behind the array, which is non-null when past_end is TRUE.
find_register_number_space(a, num_regs, past_end) ==
  LET taken(n) == IF n >= 256 THEN past_end ELSE NumberedAt(a.numbered_regs, n) # 0
      fits == {candidate \in 0 .. 255 : \A z \in 0 .. num_regs - 1 : ~taken(candidate + z)} IN
  IF fits = {} THEN -1 ELSE Min(fits)

\* for (auto r = reg->next; r; r = r->next, delta++) if (r->number >= 0) ...
\* (dir "next") and its prev twin: [found, number, delta, hangs]. A chain that
\* closes on itself without a numbered register is walked forever.
RECURSIVE WalkChain(_, _, _, _)
WalkChain(regs, r, dir, delta) ==
  IF r = 0 THEN [found |-> FALSE, number |-> -1, delta |-> delta, hangs |-> FALSE]
  ELSE IF regs[r].number >= 0 THEN [found |-> TRUE, number |-> regs[r].number, delta |-> delta, hangs |-> FALSE]
  ELSE IF delta > Len(regs) THEN [found |-> FALSE, number |-> -1, delta |-> delta, hangs |-> TRUE]
  ELSE WalkChain(regs, IF dir = "next" THEN regs[r].next ELSE regs[r].prev, dir, delta + 1)

\* the body of for (auto reg : unassigned) in assign_all: [ra, threw, hangs].
\* Assigned takes what assign_number returned, ByNext and ByPrev what the two
\* walks found (n, p), InSpace what find_register_number_space returned.
AssignAllBody(a, reg, past_end) ==
  LET Hangs == [ra |-> a, threw |-> "", hangs |-> TRUE]
      Assigned(r) == [ra |-> r.ra, threw |-> r.threw, hangs |-> FALSE]
      InSpace(p, space) ==
        IF space < 0 THEN [ra |-> a, threw |-> "not enough space to assign registers", hangs |-> FALSE]
        ELSE Assigned(assign_number(a, reg, Low8(space + (p.delta - 1))))
      ByPrev(n, p) ==
        IF p.hangs THEN Hangs
        ELSE IF p.found THEN Assigned(assign_number(a, reg, Low8(p.number + p.delta)))
        ELSE InSpace(p, find_register_number_space(a, p.delta + n.delta - 1, past_end))
      ByNext(n) ==
        IF n.hangs THEN Hangs
        ELSE IF n.found THEN Assigned(assign_number(a, reg, Low8(n.number - n.delta)))
        ELSE ByPrev(n, WalkChain(a.regs, a.regs[reg].prev, "prev", 1)) IN
  IF a.regs[reg].number >= 0 THEN [ra |-> a, threw |-> "", hangs |-> FALSE]
  ELSE ByNext(WalkChain(a.regs, a.regs[reg].next, "next", 1))

\* the register names of the sources, in the order std::map<string, ...> keeps them
RegNames == <<"a", "b", "c">>
NameRank(n) == CHOOSE i \in DOMAIN RegNames : RegNames[i] = n
NameBefore(n, m) == NameRank(n) < NameRank(m)

\* for (auto it : this->named_regs) if (it.second->number < 0) unassigned.emplace_back(it.second):
\* named_regs is a std::map, so the order is that of the names
RECURSIVE UnassignedInNameOrder(_, _)
UnassignedInNameOrder(a, names) ==
  IF names = {} THEN <<>>
  ELSE LET first == CHOOSE n \in names : \A m \in names : m = n \/ NameBefore(n, m)
           rest == UnassignedInNameOrder(a, names \ {first}) IN
       IF a.regs[a.named_regs[first]].number < 0 THEN <<a.named_regs[first]>> \o rest ELSE rest

\* the two checks that end assign_all: "" or the logic_error
AssignAllFinalCheck(a) ==
  IF \E n \in DOMAIN a.named_regs : a.regs[a.named_regs[n]].number < 0 THEN "register was not assigned"
  ELSE IF \E z \in DOMAIN a.numbered_regs : a.regs[a.numbered_regs[z]].number # z
    THEN "register has incorrect number"
  ELSE ""

\* --- the register arguments the assembler parses ---

\* most parsed register tokens in one source
MaxRaTokens == 4
\* most registers in one REG_SET_FIXED argument
MaxRegSet == 3

\* A register token after the text split of parse_reg: r:a is [name a, number -1],
\* r3 is [name "", number 3], r:a@2 is [name a, number 2]
RaTokens ==
  {[name |-> n, number |-> -1] : n \in Range(RegNames)}
  \cup {[name |-> "", number |-> k] : k \in {1, 3, 255}}
  \cup {[name |-> "a", number |-> 2]}

\* parse_reg(arg, allow_unnumbered) from the number checks on: [ra, reg, threw]
parse_reg(a, token, allow_unnumbered) ==
  IF ~allow_unnumbered /\ token.number < 0 THEN [ra |-> a, reg |-> 0, threw |-> "a numbered register is required"]
  ELSE IF token.number > 255 THEN [ra |-> a, reg |-> 0, threw |-> "invalid register number"]
  ELSE get_or_create(a, token.name, token.number)

\* The tuple loop of parse_reg_set_fixed from token i on: [ra, regs, threw].
\* for (auto& token : tokens) { regs.emplace_back(parse_reg(token)); if (regs.size() > 1) constrain(...) }
\* Parsed takes what parse_reg returned, Constrained what constrain returned.
RECURSIVE ParseRegTuple(_, _, _, _)
ParseRegTuple(a, tokens, i, regs) ==
  LET Constrained(c, regs1) ==
        IF c.threw # "" THEN [ra |-> c.ra, regs |-> regs1, threw |-> c.threw]
        ELSE ParseRegTuple(c.ra, tokens, i + 1, regs1)
      Parsed(p) ==
        IF p.threw # "" THEN [ra |-> p.ra, regs |-> regs, threw |-> p.threw]
        ELSE IF regs = <<>> THEN ParseRegTuple(p.ra, tokens, i + 1, <<p.reg>>)
        ELSE Constrained(constrain(p.ra, regs[Len(regs)], p.reg), Append(regs, p.reg)) IN
  IF i > Len(tokens) THEN [ra |-> a, regs |-> regs, threw |-> ""]
  ELSE Parsed(parse_reg(a, tokens[i], TRUE))

\* The fill loop of the range form: [ra, regs, threw].
\* while (regs.size() < expected_count - 1) { get_or_create("", (regs.back()->number + 1) & 0xFF); constrain(...) }
RECURSIVE FillRegRange(_, _, _)
FillRegRange(a, regs, expected_count) ==
  LET Constrained(c, regs1) ==
        IF c.threw # "" THEN [ra |-> c.ra, regs |-> regs1, threw |-> c.threw]
        ELSE FillRegRange(c.ra, regs1, expected_count)
      Created(g) ==
        IF g.threw # "" THEN [ra |-> g.ra, regs |-> regs, threw |-> g.threw]
        ELSE Constrained(constrain(g.ra, regs[Len(regs)], g.reg), Append(regs, g.reg)) IN
  IF Len(regs) >= expected_count - 1 THEN [ra |-> a, regs |-> regs, threw |-> ""]
  ELSE Created(get_or_create(a, "", Low8(a.regs[regs[Len(regs)]].number + 1)))

\* parse_reg_set_fixed(name, expected_count) on an argument already split:
\* arg.form is "tuple" for (t1, t2, ...), "single" for t1, "range" for t1-t2.
\* [ra, regs, threw]. Single and Range take what parse_reg(tokens[0], false)
\* returned; Filled, Last and End what the fill loop, parse_reg(tokens[1], false)
\* and the closing constrain returned.
parse_reg_set_fixed(a, arg, expected_count) ==
  LET Fails(a1, what) == [ra |-> a1, regs |-> <<>>, threw |-> what]
      \* while (regs.size() < expected_count) parse_reg("", ...): throws before it looks at the number
      Single(p) ==
        IF p.threw # "" THEN Fails(p.ra, p.threw)
        ELSE IF 1 < expected_count THEN Fails(p.ra, "register argument is too short")
        ELSE [ra |-> p.ra, regs |-> <<p.reg>>, threw |-> ""]
      End(f, q, c) ==
        IF c.threw # "" THEN Fails(c.ra, c.threw)
        ELSE [ra |-> c.ra, regs |-> Append(f.regs, q.reg), threw |-> ""]
      \* static_cast<size_t>(back - front + 1) != expected_count, then constrain
      Last(p, f, q) ==
        IF q.threw # "" THEN Fails(q.ra, q.threw)
        ELSE IF q.ra.regs[q.reg].number - q.ra.regs[p.reg].number + 1 # expected_count
          THEN Fails(q.ra, "incorrect number of registers used")
        ELSE End(f, q, constrain(q.ra, f.regs[Len(f.regs)], q.reg))
      Filled(p, f) ==
        IF f.threw # "" THEN Fails(f.ra, f.threw)
        ELSE Last(p, f, parse_reg(f.ra, arg.tokens[2], FALSE))
      Ranged(p) ==
        IF p.threw # "" THEN Fails(p.ra, p.threw)
        ELSE Filled(p, FillRegRange(p.ra, <<p.reg>>, expected_count)) IN
  IF expected_count = 0 THEN Fails(a, "REG_SET_FIXED argument expects no registers")
  ELSE IF arg.form = "tuple" THEN
    IF Len(arg.tokens) # expected_count
      THEN Fails(a, "incorrect number of registers in REG_SET_FIXED")
    ELSE ParseRegTuple(a, arg.tokens, 1, <<>>)
  ELSE IF arg.form = "single" THEN Single(parse_reg(a, arg.tokens[1], FALSE))
  ELSE Ranged(parse_reg(a, arg.tokens[1], FALSE))

\* the REG_SET_FIXED arguments of the sources
RegSetArgs ==
  {[form |-> "tuple", tokens |-> t] : t \in UNION {[1 .. n -> RaTokens] : n \in 1 .. MaxRegSet}}
  \cup {[form |-> "single", tokens |-> <<t>>] : t \in RaTokens}
  \cup {[form |-> "range", tokens |-> <<t, u>>] : t \in RaTokens, u \in RaTokens}

RaIdle ==
  /\ ra = RegisterAssignerNew /\ ra_unassigned = <<>> /\ ra_i = 0 /\ ra_tokens = 0
  /\ ra_pins = {} /\ ra_links = {} /\ ra_error = "" /\ ra_last = <<>> /\ ra_pc = "idle"

\* RegisterAssigner reg_assigner;
RaInit ==
  /\ ra = RegisterAssignerNew /\ ra_unassigned = <<>> /\ ra_i = 0 /\ ra_tokens = 0
  /\ ra_pins = {} /\ ra_links = {} /\ ra_error = "" /\ ra_last = <<>> /\ ra_pc = "parse"

\* a REG argument: parse_reg(arg)
RaParseReg ==
  /\ ra_pc = "parse"
  /\ ra_tokens + 1 <= MaxRaTokens
  /\ \E t \in RaTokens : \E p \in {parse_reg(ra, t, TRUE)} :
       /\ ra' = p.ra
       /\ ra_error' = p.threw
       /\ ra_pc' = IF p.threw # "" THEN "threw" ELSE "parse"
       /\ ra_pins' = IF p.threw = "" /\ t.number >= 0 THEN ra_pins \cup {<<p.reg, t.number>>} ELSE ra_pins
  /\ ra_tokens' = ra_tokens + 1
  /\ UNCHANGED <<ra_unassigned, ra_i, ra_links, ra_last>>

\* a REG_SET_FIXED argument: parse_reg_set_fixed(arg, def.args[i].count)
RaParseRegSetFixed ==
  /\ ra_pc = "parse"
  /\ \E arg \in RegSetArgs, expected_count \in 1 .. MaxRegSet :
       /\ ra_tokens + Len(arg.tokens) <= MaxRaTokens
       /\ ra_tokens' = ra_tokens + Len(arg.tokens)
       /\ \E p \in {parse_reg_set_fixed(ra, arg, expected_count)} :
            /\ ra' = p.ra
            /\ ra_error' = p.threw
            /\ ra_pc' = IF p.threw # "" THEN "threw" ELSE "parse"
            /\ ra_pins' = IF p.threw # "" THEN ra_pins
                          ELSE ra_pins \cup {<<r, p.ra.regs[r].number>> : r \in {x \in Range(p.regs) : p.ra.regs[x].number >= 0}}
            /\ ra_links' = IF p.threw # "" THEN ra_links
                           ELSE ra_links \cup {<<p.regs[i], p.regs[i + 1]>> : i \in 1 .. Len(p.regs) - 1}
            /\ ra_last' = <<[arg |-> arg, expected_count |-> expected_count, threw |-> p.threw,
                             regs |-> p.regs]>>
  /\ UNCHANGED <<ra_unassigned, ra_i>>

\* assign_all, first loop: collect the unnumbered named registers
AssignAllBegin ==
  /\ ra_pc = "parse"
  /\ ra_unassigned' = UnassignedInNameOrder(ra, DOMAIN ra.named_regs)
  /\ ra_i' = 1
  /\ ra_pc' = "assign"
  /\ UNCHANGED <<ra, ra_tokens, ra_pins, ra_links, ra_error, ra_last>>

\* assign_all, second loop: one register
AssignAllStep ==
  /\ ra_pc = "assign"
  /\ ra_i <= Len(ra_unassigned)
  /\ \E past_end \in BOOLEAN : \E r \in {AssignAllBody(ra, ra_unassigned[ra_i], past_end)} :
       /\ ra' = r.ra
       /\ ra_error' = r.threw
       /\ ra_pc' = IF r.hangs THEN "hang" ELSE IF r.threw # "" THEN "threw" ELSE "assign"
       /\ ra_i' = IF r.hangs \/ r.threw # "" THEN ra_i ELSE ra_i + 1
  /\ UNCHANGED <<ra_unassigned, ra_tokens, ra_pins, ra_links, ra_last>>

\* assign_all, the closing checks
AssignAllEnd ==
  /\ ra_pc = "assign"
  /\ ra_i > Len(ra_unassigned)
  /\ ra_error' = AssignAllFinalCheck(ra)
  /\ ra_pc' = IF AssignAllFinalCheck(ra) # "" THEN "threw" ELSE "done"
  /\ UNCHANGED <<ra, ra_unassigned, ra_i, ra_tokens, ra_pins, ra_links, ra_last>>

-----------------------------------------------------------------------------
(* assemble_quest_script (QuestScript.cc 2030-2683).  The text is taken    *)
(* after the comment strip and the split into lines and argument tokens.   *)
(* A line is one of                                                        *)
(*   [kind |-> "empty"]                                                    *)
(*   [kind |-> "directive", name |-> ".quest_num", num |-> 1]  (the third  *)
(*       field is what follows `name `; it is absent when nothing follows) *)
(*   [kind |-> "label", name |-> "a", index |-> 2]   (index -1 without @)  *)
(*   [kind |-> "code", name |-> "jmp", args |-> <<token, ...>>]            *)
(* and a token is [t |-> "name", name |-> "a"], [t |-> "int", value |-> 5],*)
(* [t |-> "dots"] for `...`, or one of the register, set, float and string *)
(* tokens the disassembler prints.                                         *)

VARIABLES
  as_lines,            \* lines
  as_meta,             \* quest_version, quest_num, quest_name, quest_joinable
  as_line_num,         \* line_num of the loop that is running
  as_labels_by_name,   \* labels_by_name: name -> [index, offset]
  as_labels_by_index,  \* labels_by_index: index -> name
  as_code_w,           \* code_w
  as_result,           \* how the call ended: what it threw or the file it returned
  as_pc

asVars ==
  <<as_lines, as_meta, as_line_num, as_labels_by_name, as_labels_by_index, as_code_w, as_result, as_pc>>

\* what follows `name ` on the last line that starts with it (the loop of
\* 2062-2088 overwrites), or default when no line does
Directive(lines, name, field, default) ==
  LET at == {i \in DOMAIN lines :
               /\ lines[i].kind = "directive"
               /\ lines[i].name = name
               /\ field \in DOMAIN lines[i]} IN
  IF at = {} THEN default ELSE lines[CHOOSE i \in at : \A j \in at : j <= i][field]

\* the metadata the directives give; -1 stands for Version::UNKNOWN
AsmMetadata(lines) ==
  [quest_version |-> Directive(lines, ".version", "version", -1),
   quest_num |-> Directive(lines, ".quest_num", "num", -1),
   quest_name |-> Directive(lines, ".name", "str", ""),
   quest_joinable |-> Directive(lines, ".joinable", "arg", "") # ""]

\* the three checks after the metadata loop: what is thrown, or ""
MetadataError(meta) ==
  IF meta.quest_version \in {PC_PATCH, BB_PATCH, -1} THEN ".version directive is missing or invalid"
  ELSE IF meta.quest_num < 0 THEN ".quest_num directive is missing or invalid"
  ELSE IF meta.quest_name = "" THEN ".name directive is missing or invalid"
  ELSE ""

\* a label collection without its checks: a later label takes the name and
\* the index of an earlier one
CollectLabelUnchecked(labels_by_name, labels_by_index, line) ==
  LET index == IF line.name = "start" THEN 0 ELSE line.index IN
  [threw |-> "",
   labels_by_name |->
     [n \in DOMAIN labels_by_name \cup {line.name} |->
       IF n = line.name THEN [index |-> index, offset |-> -1] ELSE labels_by_name[n]],
   labels_by_index |->
     IF index < 0 THEN labels_by_index
     ELSE [z \in DOMAIN labels_by_index \cup {index} |->
            IF z = index THEN line.name ELSE labels_by_index[z]]]
\* one label line in the loop that finds the label names
CollectLabel(labels_by_name, labels_by_index, line) ==
  LET index == IF line.index < 0 /\ line.name = "start" THEN 0 ELSE line.index
      Throw(what) ==
        [threw |-> what, labels_by_name |-> labels_by_name, labels_by_index |-> labels_by_index]
  IN
  IF line.name = "start" /\ line.index > 0 THEN Throw("start label cannot have a nonzero label ID")
  ELSE IF line.name \in DOMAIN labels_by_name THEN Throw("duplicate label name")
  ELSE IF index >= 0 /\ index \in DOMAIN labels_by_index THEN Throw("duplicate label index")
  ELSE [threw |-> "",
        labels_by_name |->
          [n \in DOMAIN labels_by_name \cup {line.name} |->
            IF n = line.name THEN [index |-> index, offset |-> -1] ELSE labels_by_name[n]],
        labels_by_index |->
          IF index < 0 THEN labels_by_index
          ELSE [z \in DOMAIN labels_by_index \cup {index} |->
                 IF z = index THEN line.name ELSE labels_by_index[z]]]

\* an index assignment that numbers the labels without explicit indexes, in
\* name order, after the highest explicit index
AssignIndexesAfterHighest(labels_by_name, labels_by_index, next_index) ==
  LET unset == {n \in DOMAIN labels_by_name : labels_by_name[n].index < 0}
      highest == CHOOSE i \in DOMAIN labels_by_index : \A j \in DOMAIN labels_by_index : j <= i
      Index(n) == IF n \in unset
                  THEN highest + 1 + Cardinality({m \in unset : NameBefore(m, n)})
                  ELSE labels_by_name[n].index
  IN
  [labels_by_name |-> [n \in DOMAIN labels_by_name |-> [labels_by_name[n] EXCEPT !.index = Index(n)]],
   labels_by_index |->
     [z \in {Index(n) : n \in DOMAIN labels_by_name} |->
       CHOOSE n \in DOMAIN labels_by_name : Index(n) = z]]
\* the loop that assigns indexes to labels without explicit indexes: the
\* labels are visited in name order and the indexed ones are skipped
RECURSIVE AssignIndexes(_, _, _)
AssignIndexes(labels_by_name, labels_by_index, next_index) ==
  LET unindexed == {n \in DOMAIN labels_by_name : labels_by_name[n].index < 0} IN
  IF unindexed = {}
  THEN [labels_by_name |-> labels_by_name, labels_by_index |-> labels_by_index]
  ELSE LET name == CHOOSE n \in unindexed : \A o \in unindexed : o = n \/ NameBefore(n, o)
           index == Min({z \in next_index .. next_index + Cardinality(DOMAIN labels_by_index) :
                          z \notin DOMAIN labels_by_index})
       IN AssignIndexes(
            [labels_by_name EXCEPT ![name].index = index],
            [z \in DOMAIN labels_by_index \cup {index} |->
              IF z = index THEN name ELSE labels_by_index[z]],
            index + 1)

\* add_label writing the label's offset instead of its index
add_label_offset(labels_by_name, name, is32) ==
  IF name \notin DOMAIN labels_by_name
  THEN [threw |-> "label not defined: " \o name, bytes |-> <<>>]
  ELSE [threw |-> "",
        bytes |-> IF is32 THEN put_u32l(labels_by_name[name].offset)
                  ELSE put_u16l(labels_by_name[name].offset)]
\* add_label(name, is32): put_u32 / put_u16 of the label's index (the host
\* byte order of the builds is little-endian)
add_label(labels_by_name, name, is32) ==
  IF name \notin DOMAIN labels_by_name
  THEN [threw |-> "label not defined: " \o name, bytes |-> <<>>]
  ELSE [threw |-> "",
        bytes |-> IF is32 THEN put_u32l(labels_by_name[name].index)
                  ELSE put_u16l(labels_by_name[name].index)]

\* the bytes of a sequence of byte strings written one after the other
RECURSIVE Flatten(_)
Flatten(strings) ==
  IF strings = <<>> THEN <<>> ELSE Head(strings) \o Flatten(Tail(strings))

\* an argument that is written after the opcode whatever the build: four
\* bytes of an integer, the bytes of a string and a zero byte
AsmArgInline(version, labels_by_name, type, arg, use_args) ==
  [threw |-> "",
   bytes |-> IF arg.t = "int" THEN put_u32l(arg.value)
             ELSE IF arg.t = "str" THEN arg.units \o <<0>>
             ELSE <<0, 0>>]
\* One argument: [threw, bytes].  With use_args the argument is pushed by an
\* arg_push opcode chosen from how it is written; otherwise it is encoded by
\* the type the opcode row declares (2472-2528).  With use_args the label,
\* integer and string forms are the ones translated: the sources assembled
\* here use no other.  A register is the number parse_reg gave it, a register
\* set the numbers of its registers, a label set its names, and a float the
\* integer stof(arg) is converted to by put_u32l.  A
\* string is its characters' codes, all below 128, where the encodings of
\* add_cstr agree: one byte each and a zero byte, or two bytes each, low byte
\* first, and two zero bytes on the builds with wide strings.
AsmArg(version, labels_by_name, type, arg, use_args) ==
  LET Bytes(b) == [threw |-> "", bytes |-> b]
      Throw(what) == [threw |-> what, bytes |-> <<>>]
      add_cstr(units) ==
        IF version \in {PC_NTE, PC_V2, BB_V4}
        THEN Flatten([i \in DOMAIN units |-> put_u16l(units[i])]) \o <<0, 0>>
        ELSE units \o <<0>>
      add_reg(number, is32) == IF is32 THEN put_u32l(number % 256) ELSE put_u8(number)
  IN
  IF use_args THEN
    IF arg.t = "name" THEN
      IF arg.name \in DOMAIN labels_by_name
      THEN Bytes(<<75>> \o put_u16l(labels_by_name[arg.name].index))
      ELSE Throw("invalid argument syntax")
    ELSE IF arg.t = "int" THEN
      IF arg.value > 65535 THEN Bytes(<<73>> \o put_u32l(arg.value))
      ELSE IF arg.value > 255 THEN Bytes(<<75>> \o put_u16l(arg.value))
      ELSE Bytes(<<74>> \o put_u8(arg.value))
    ELSE IF arg.t = "str" THEN Bytes(<<78>> \o add_cstr(arg.units))
    ELSE Throw("argument form not translated")
  ELSE
    CASE type \in {"LABEL16", "LABEL32"} ->
           IF arg.t = "name" THEN add_label(labels_by_name, arg.name, type = "LABEL32")
           ELSE Throw("label not defined")
      [] type = "INT8" -> IF arg.t = "int" THEN Bytes(put_u8(arg.value)) ELSE Throw("stol")
      [] type = "INT16" -> IF arg.t = "int" THEN Bytes(put_u16l(arg.value)) ELSE Throw("stol")
      [] type = "INT32" -> IF arg.t = "int" THEN Bytes(put_u32l(arg.value)) ELSE Throw("stol")
      [] type = "CSTRING" ->
           IF arg.t = "str" THEN Bytes(add_cstr(arg.units))
           ELSE Throw("argument form not translated")
      [] type = "LABEL16_SET" ->
           IF arg.t # "labels" THEN Throw("incorrect syntax for set-valued argument")
           ELSE IF \E i \in DOMAIN arg.names : arg.names[i] \notin DOMAIN labels_by_name
           THEN Throw("label not defined")
           ELSE Bytes(put_u8(Len(arg.names))
                      \o Flatten([i \in DOMAIN arg.names |->
                                   add_label(labels_by_name, arg.names[i], FALSE).bytes]))
      [] type \in {"REG", "REG32"} ->
           IF arg.t = "reg" THEN Bytes(add_reg(arg.number, type = "REG32"))
           ELSE Throw("a register is required")
      [] type \in {"REG_SET_FIXED", "REG32_SET_FIXED"} ->
           IF arg.t = "regs" /\ arg.numbers # <<>>
           THEN Bytes(add_reg(arg.numbers[1], type = "REG32_SET_FIXED"))
           ELSE Throw("invalid fixed register set syntax")
      [] type = "REG_SET" ->
           IF arg.t = "regs"
           THEN Bytes(put_u8(Len(arg.numbers))
                      \o Flatten([i \in DOMAIN arg.numbers |-> add_reg(arg.numbers[i], FALSE)]))
           ELSE Throw("incorrect syntax for set-valued argument")
      [] type = "FLOAT32" -> IF arg.t = "int" THEN Bytes(put_u32l(arg.value)) ELSE Throw("stof")
      [] OTHER -> Throw("unknown argument type")

\* the loop over the arguments of one line; the first throw ends it
RECURSIVE AsmArgs(_, _, _, _, _, _)
AsmArgs(version, labels_by_name, arg_defs, args, z, use_args) ==
  IF z > Len(args) THEN [threw |-> "", bytes |-> <<>>]
  ELSE LET one == AsmArg(version, labels_by_name, arg_defs[z].type, args[z], use_args) IN
       IF one.threw # "" THEN one
       ELSE LET rest == AsmArgs(version, labels_by_name, arg_defs, args, z + 1, use_args) IN
            [threw |-> rest.threw, bytes |-> one.bytes \o rest.bytes]

\* One pass of the code loop (2242-2547) on a line: [threw, labels_by_name,
\* code_w].  known and def are what opcodes.at(mnemonic) gave for a code line.
AsmLine(version, labels_by_name, code_w, line, known, def) ==
  LET use_args == version_has_args(version) /\ BitSet(def.flags, F_ARGS)
      Emit(b) == [threw |-> "", labels_by_name |-> labels_by_name, code_w |-> code_w \o b]
      Throw(what) == [threw |-> what, labels_by_name |-> labels_by_name, code_w |-> code_w]
      Args(r) ==
        IF r.threw # "" THEN Throw(r.threw)
        ELSE IF use_args THEN Emit(r.bytes \o put_opcode(def.opcode))
        ELSE Emit(put_opcode(def.opcode) \o r.bytes)
  IN
  CASE line.kind = "empty" -> Emit(<<>>)
    [] line.kind = "label" ->
         [threw |-> "",
          labels_by_name |-> [labels_by_name EXCEPT ![line.name].offset = Len(code_w)],
          code_w |-> code_w]
    [] line.kind = "directive" ->
         IF line.name = ".data" /\ "data" \in DOMAIN line THEN Emit(line.data) ELSE Emit(<<>>)
    [] line.kind = "code" ->
         IF ~known THEN Throw("map::at")
         ELSE IF def.args = <<>> THEN
           IF line.args # <<>> THEN Throw("arguments not allowed")
           ELSE IF use_args THEN Emit(<<>>) ELSE Emit(put_opcode(def.opcode))
         ELSE IF line.args = <<>> THEN Throw("arguments required")
         ELSE IF line.args[1].t = "dots" THEN
           IF use_args THEN Emit(put_opcode(def.opcode))
           ELSE Throw("'...' can only be used with F_ARGS opcodes")
         ELSE IF Len(line.args) # Len(def.args) THEN Throw("incorrect argument count")
         ELSE Args(AsmArgs(version, labels_by_name, def.args, line.args, 1, use_args))

\* a function table with one entry per label and no sentinel entries
FunctionTableDense(labels_by_name, labels_by_index) ==
  LET indexes == DOMAIN labels_by_index
      Nth(z) == CHOOSE i \in indexes : Cardinality({j \in indexes : j < i}) = z - 1 IN
  [threw |-> "",
   function_table |-> [z \in 1 .. Cardinality(indexes) |->
                        put_u32l(labels_by_name[labels_by_index[Nth(z)]].offset)]]
\* Generate function table (2564-2585): entry z of the vector is element
\* z + 1, kept as the four bytes of the le_uint32_t
FunctionTable(labels_by_name, labels_by_index) ==
  LET function_table_size == (CHOOSE i \in DOMAIN labels_by_index :
                                \A j \in DOMAIN labels_by_index : j <= i) + 1
      unset == {z \in DOMAIN labels_by_index : labels_by_name[labels_by_index[z]].offset < 0}
  IN
  IF unset # {} THEN [threw |-> "label does not have a valid offset", function_table |-> <<>>]
  ELSE [threw |-> "",
        function_table |->
          [z \in 1 .. function_table_size |->
            IF (z - 1) \in DOMAIN labels_by_index
            THEN put_u32l(labels_by_name[labels_by_index[z - 1]].offset)
            ELSE <<255, 255, 255, 255>>]]

\* The header fields the build's header struct keeps of the metadata (2587-2679):
\* the DC_NTE header has the name only, quest_number is 8 bits wide in the
\* GC/XB header and 16 bits wide in the others, joinable exists on BB only.
AsmHeader(meta) ==
  [quest_number |->
     IF meta.quest_version = DC_NTE THEN 0
     ELSE IF meta.quest_version \in {GC_NTE, GC_V3, GC_EP3_NTE, GC_EP3, XB_V3}
     THEN meta.quest_num % 256
     ELSE meta.quest_num % 65536,
   joinable |-> IF meta.quest_version = BB_V4 /\ meta.quest_joinable THEN 1 ELSE 0,
   name |-> meta.quest_name]

NoResult ==
  [kind |-> "none", what |-> "",
   header |-> [quest_number |-> 0, joinable |-> 0, name |-> ""],
   code |-> <<>>, function_table |-> <<>>]

AsIdle ==
  /\ as_lines = <<>>
  /\ as_meta = AsmMetadata(<<>>)
  /\ as_line_num = 0
  /\ as_labels_by_name = EmptyIndex
  /\ as_labels_by_index = EmptyIndex
  /\ as_code_w = <<>>
  /\ as_result = NoResult
  /\ as_pc = "idle"

\* assemble_quest_script is called on lines
AsmCall(lines) ==
  /\ as_lines' = lines
  /\ as_meta' = AsmMetadata(<<>>)
  /\ as_line_num' = 0
  /\ as_labels_by_name' = EmptyIndex
  /\ as_labels_by_index' = EmptyIndex
  /\ as_code_w' = <<>>
  /\ as_result' = NoResult
  /\ as_pc' = "metadata"

\* Collect metadata directives, and the three checks
AsmReadMetadata ==
  /\ as_pc = "metadata"
  /\ \E meta \in {AsmMetadata(as_lines)} : \E err \in {MetadataError(meta)} :
       /\ as_meta' = meta
       /\ as_result' = IF err # "" THEN [as_result EXCEPT !.kind = "threw", !.what = err]
                       ELSE as_result
       /\ as_pc' = IF err # "" THEN "done" ELSE "labels"
       /\ as_line_num' = 1
  /\ UNCHANGED <<as_lines, as_labels_by_name, as_labels_by_index, as_code_w>>

\* Find all label names: one line
AsmCollectLabel ==
  /\ as_pc = "labels"
  /\ as_line_num <= Len(as_lines)
  /\ \E line \in {as_lines[as_line_num]} :
       IF line.kind # "label"
       THEN /\ as_line_num' = as_line_num + 1
            /\ UNCHANGED <<as_labels_by_name, as_labels_by_index, as_result, as_pc>>
       ELSE \E r \in {CollectLabel(as_labels_by_name, as_labels_by_index, line)} :
              /\ as_labels_by_name' = r.labels_by_name
              /\ as_labels_by_index' = r.labels_by_index
              /\ as_result' = IF r.threw # ""
                              THEN [as_result EXCEPT !.kind = "threw", !.what = r.threw]
                              ELSE as_result
              /\ as_pc' = IF r.threw # "" THEN "done" ELSE "labels"
              /\ as_line_num' = IF r.threw # "" THEN as_line_num ELSE as_line_num + 1
  /\ UNCHANGED <<as_lines, as_meta, as_code_w>>

\* the start check, then indexes for the labels without explicit indexes
AsmAssignIndexes ==
  /\ as_pc = "labels"
  /\ as_line_num > Len(as_lines)
  /\ IF "start" \notin DOMAIN as_labels_by_name
     THEN /\ as_result' = [as_result EXCEPT !.kind = "threw", !.what = "start label is not defined"]
          /\ as_pc' = "done"
          /\ UNCHANGED <<as_labels_by_name, as_labels_by_index, as_line_num>>
     ELSE \E r \in {AssignIndexes(as_labels_by_name, as_labels_by_index, 0)} :
            /\ as_labels_by_name' = r.labels_by_name
            /\ as_labels_by_index' = r.labels_by_index
            /\ as_line_num' = 1
            /\ as_pc' = "code"
            /\ UNCHANGED as_result
  /\ UNCHANGED <<as_lines, as_meta, as_code_w>>

\* the code loop: one line
AsmCodeLine ==
  /\ as_pc = "code"
  /\ as_line_num <= Len(as_lines)
  /\ \E line \in {as_lines[as_line_num]} :
     \E z \in {IF line.kind = "code" THEN name_at(as_meta.quest_version, line.name) ELSE 0} :
     \E def \in {opcode_defs[IF z = 0 THEN 1 ELSE z]} :
     \E r \in {AsmLine(as_meta.quest_version, as_labels_by_name, as_code_w, line, z # 0, def)} :
       /\ as_labels_by_name' = r.labels_by_name
       /\ as_code_w' = r.code_w
       /\ as_result' = IF r.threw # ""
                       THEN [as_result EXCEPT !.kind = "threw", !.what = r.threw]
                       ELSE as_result
       /\ as_pc' = IF r.threw # "" THEN "done" ELSE "code"
       /\ as_line_num' = IF r.threw # "" THEN as_line_num ELSE as_line_num + 1
  /\ UNCHANGED <<as_lines, as_meta, as_labels_by_index>>

\* the padding to a multiple of 4 bytes, the function table, the header and
\* the returned file (no register is named in these sources, so assign_all
\* and the patch loop change nothing)
AsmFinish ==
  /\ as_pc = "code"
  /\ as_line_num > Len(as_lines)
  /\ \E padded \in {as_code_w \o [i \in 1 .. ((4 - (Len(as_code_w) % 4)) % 4) |-> 0]} :
     \E t \in {FunctionTable(as_labels_by_name, as_labels_by_index)} :
       /\ as_code_w' = padded
       /\ as_result' =
            IF t.threw # "" THEN [as_result EXCEPT !.kind = "threw", !.what = t.threw]
            ELSE [kind |-> "returned", what |-> "", header |-> AsmHeader(as_meta),
                  code |-> padded, function_table |-> Flatten(t.function_table)]
       /\ as_pc' = "done"
  /\ UNCHANGED <<as_lines, as_meta, as_line_num, as_labels_by_name, as_labels_by_index>>

-----------------------------------------------------------------------------
(* disassemble_quest_script (QuestScript.cc 952-1683) with                 *)
(* use_qedit_names clear.  The file is [version, header, code,             *)
(* function_table, reassembly_mode]: the header fields, the bytes between  *)
(* code_offset and function_table_offset, the bytes after                  *)
(* function_table_offset, and the mode the call is made with.  The text it *)
(* returns is a sequence of lines as the assembler takes them, with        *)
(* [kind |-> "comment"] for a line that is only a comment.                 *)

VARIABLES
  da_in,              \* data, size, version
  da_function_table,  \* function_table: entry z + 1 is the Label of function z
  da_pending,         \* pending_dasm_start_offsets
  da_dasm_lines,      \* dasm_lines: offset -> [line, next_offset]
  da_where,           \* cmd_r.where()
  da_arg_stack,       \* arg_stack_values
  da_walk,            \* the passes of the inner loop since the last pending offset
                      \* was taken: [offset, flags] of each instruction, in order
  da_decoded,         \* how many times the body of the inner loop has run
  da_out,             \* lines
  da_pc

daVars ==
  <<da_in, da_function_table, da_pending, da_dasm_lines, da_where, da_arg_stack, da_walk,
    da_decoded, da_out, da_pc>>

HexDigit == <<"0", "1", "2", "3", "4", "5", "6", "7", "8", "9", "A", "B", "C", "D", "E", "F">>

\* %0<width>X
RECURSIVE Hex(_, _)
Hex(n, width) ==
  IF n < 16 /\ width <= 1 THEN HexDigit[n + 1]
  ELSE Hex(n \div 16, width - 1) \o HexDigit[(n % 16) + 1]

\* the lines the switch on the version adds for the header (961-1062)
DasmHeaderLines(version, header) ==
  <<[kind |-> "directive", name |-> ".version", version |-> version]>>
  \o (IF version = DC_NTE THEN <<>>
      ELSE <<[kind |-> "directive", name |-> ".quest_num", num |-> header.quest_number]>>)
  \o (IF version = BB_V4 /\ header.joinable # 0
      THEN <<[kind |-> "directive", name |-> ".joinable"]>> ELSE <<>>)
  \o <<[kind |-> "directive", name |-> ".name", str |-> header.name]>>

\* A uint32_t is kept as its four bytes, low byte first.  a < b:
U32Before(a, b) == \E i \in 1 .. 4 : a[i] < b[i] /\ \A j \in (i + 1) .. 4 : a[j] = b[j]

\* l->offset < cmd_r.size()
InCode(offset, size) == offset[4] < 128 /\ get_u32l(offset, 0) < size

\* the loop that reads the function table (1087-1106); bytes short of a
\* whole entry at the end are skipped
ReadFunctionTable(bytes) ==
  [z \in 1 .. (Len(bytes) \div 4) |->
    [name |-> IF z = 1 THEN "start" ELSE "label" \o Hex(z - 1, 4),
     offset |-> SubSeq(bytes, (4 * z) - 3, 4 * z),
     function_id |-> z - 1,
     type_flags |-> IF z = 1 THEN {"SCRIPT"} ELSE {},
     references |-> {}]]

\* One case of the switch (arg.type) at 1180-1326: [threw, where, token, ids,
\* pushed].  where is where the reader stands afterwards, ids the label ids
\* read (in a set argument, those read before a read threw), pushed what the
\* case put on arg_stack_values: [type, as_int] or [type, as_string], and
\* [type, as_bytes] for a 32-bit value of 2^31 or more, which is kept as its
\* bytes (Wide); as a label id such a value is past every table.  A string
\* is the codes of its characters, 8 or 16 bits wide, without the terminator.
DasmArg(code, where, arg, def, use_wstrs) ==
  LET flags == def.flags
      Throw(what, w, ids) ==
        [threw |-> what, where |-> w, token |-> [t |-> "none"], ids |-> ids, pushed |-> <<>>]
      GotPush(n, token, ids, v) ==
        [threw |-> "", where |-> where + n, token |-> token, ids |-> ids,
         pushed |-> IF BitSet(flags, F_PASS) THEN <<v>> ELSE <<>>]
      Got(n, token, ids) ==
        [threw |-> "", where |-> where + n, token |-> token, ids |-> ids, pushed |-> <<>>]
      GotInt(n, v) == GotPush(n, [t |-> "int", value |-> v], <<>>, [type |-> "INT", as_int |-> v])
      Label(n, id) ==
        GotPush(n, [t |-> "name", name |-> "label" \o Hex(id, 4)], <<id>>,
                [type |-> "LABEL", as_int |-> id])
      Wide(t, type) ==
        GotPush(4, [t |-> t, name |-> "label" \o Hex(code[where + 4], 2) \o Hex(code[where + 3], 2)
                                       \o Hex(code[where + 2], 2) \o Hex(code[where + 1], 2),
                    bytes |-> SubSeq(code, where + 1, where + 4)], <<>>,
                [type |-> type, as_bytes |-> SubSeq(code, where + 1, where + 4)])
      Set(width, k, complete) ==
        IF complete THEN Got(1 + (width * k), [t |-> "set", width |-> width, items |-> k], <<>>)
        ELSE Throw("out_of_range", where + 1 + (width * k), <<>>)
      LabelSet(k, complete) ==
        [Set(2, k, complete) EXCEPT
           !.ids = [i \in 1 .. k |-> get_u16l(code, where + 1 + (2 * (i - 1)))]]
      Count(width) == Min({get_u8(code, where), (Len(code) - (where + 1)) \div width})
      Units(s, width) ==
        [i \in 1 .. (((s.where - where) \div width) - 1) |->
          IF width = 2 THEN get_u16l(code, where + (2 * (i - 1))) ELSE get_u8(code, where + i - 1)]
      String(s, width) ==
        IF s.ok THEN GotPush(s.where - where, [t |-> "str", units |-> Units(s, width)], <<>>,
                             [type |-> "CSTRING", as_string |-> Units(s, width)])
        ELSE Throw("out_of_range", s.where, <<>>)
      Float ==
        IF CanGet(code, where, 4)
        THEN GotPush(4, [t |-> "float", bytes |-> SubSeq(code, where + 1, where + 4)], <<>>,
                     [type |-> "INT", as_bytes |-> SubSeq(code, where + 1, where + 4)])
        ELSE Throw("out_of_range", where, <<>>)
      Reg ==
        IF CanGet(code, where, 1)
        THEN GotPush(1, [t |-> "reg", bytes |-> SubSeq(code, where + 1, where + 1)], <<>>,
                     [type |-> IF def.opcode = 76 THEN "REG_PTR" ELSE "REG",
                      as_int |-> get_u8(code, where)])
        ELSE Throw("out_of_range", where, <<>>)
      Fixed(n, t) ==
        IF CanGet(code, where, n) THEN Got(n, [t |-> t, bytes |-> SubSeq(code, where + 1, where + n)], <<>>)
        ELSE Throw("out_of_range", where, <<>>)
  IN
  CASE arg.type = "LABEL16" ->
         IF CanGet(code, where, 2) THEN Label(2, get_u16l(code, where))
         ELSE Throw("out_of_range", where, <<>>)
    [] arg.type = "LABEL32" ->
         IF ~CanGet(code, where, 4) THEN Throw("out_of_range", where, <<>>)
         ELSE IF code[where + 4] >= 128 THEN Wide("name", "LABEL")
         ELSE Label(4, get_u32l(code, where))
    [] arg.type = "LABEL16_SET" ->
         IF BitSet(flags, F_PASS) THEN Throw("LABEL16_SET cannot be pushed to arg stack", where, <<>>)
         ELSE IF ~CanGet(code, where, 1) THEN Throw("out_of_range", where, <<>>)
         ELSE LabelSet(Count(2), Count(2) = get_u8(code, where))
    [] arg.type = "REG_SET" ->
         IF BitSet(flags, F_PASS) THEN Throw("REG_SET cannot be pushed to arg stack", where, <<>>)
         ELSE IF ~CanGet(code, where, 1) THEN Throw("out_of_range", where, <<>>)
         ELSE Set(1, Count(1), Count(1) = get_u8(code, where))
    [] arg.type = "REG_SET_FIXED" ->
         IF BitSet(flags, F_PASS) THEN Throw("REG_SET_FIXED cannot be pushed to arg stack", where, <<>>)
         ELSE Fixed(1, "range")
    [] arg.type = "REG32_SET_FIXED" ->
         IF BitSet(flags, F_PASS) THEN Throw("REG32_SET_FIXED cannot be pushed to arg stack", where, <<>>)
         ELSE Fixed(4, "range")
    [] arg.type = "REG" -> Reg
    [] arg.type = "INT8" ->
         IF CanGet(code, where, 1) THEN GotInt(1, get_u8(code, where))
         ELSE Throw("out_of_range", where, <<>>)
    [] arg.type = "INT16" ->
         IF CanGet(code, where, 2) THEN GotInt(2, get_u16l(code, where))
         ELSE Throw("out_of_range", where, <<>>)
    [] arg.type = "INT32" ->
         IF ~CanGet(code, where, 4) THEN Throw("out_of_range", where, <<>>)
         ELSE IF code[where + 4] >= 128 THEN Wide("wide", "INT")
         ELSE GotInt(4, get_u32l(code, where))
    [] arg.type = "FLOAT32" -> Float
    [] arg.type = "CSTRING" ->
         IF use_wstrs THEN String(SkipCString(code, where, 2), 2)
         ELSE String(SkipCString(code, where, 1), 1)
    [] OTHER -> Throw("invalid argument type", where, <<>>)

\* the loop over def->args: [threw, where, tokens, refs, pushed]; refs are
\* the label ids read, each with the data type of its argument, and pushed
\* the values put on arg_stack_values, in both cases up to a throw
RECURSIVE DasmArgs(_, _, _, _, _, _)
DasmArgs(code, where, args, z, def, use_wstrs) ==
  IF z > Len(args)
  THEN [threw |-> "", where |-> where, tokens |-> <<>>, refs |-> <<>>, pushed |-> <<>>]
  ELSE LET one == DasmArg(code, where, args[z], def, use_wstrs)
           refs == [i \in DOMAIN one.ids |->
                     [label_id |-> one.ids[i], data_type |-> args[z].data_type, enqueue |-> TRUE]]
       IN
       IF one.threw # ""
       THEN [threw |-> one.threw, where |-> one.where, tokens |-> <<>>, refs |-> refs,
             pushed |-> <<>>]
       ELSE LET rest == DasmArgs(code, one.where, args, z + 1, def, use_wstrs) IN
            [threw |-> rest.threw, where |-> rest.where,
             tokens |-> <<one.token>> \o rest.tokens, refs |-> refs \o rest.refs,
             pushed |-> one.pushed \o rest.pushed]

\* an F_ARGS branch that prints "..." in both modes
DasmStackArgsDots(def, reassembly_mode, arg_stack) ==
  [threw |-> "", tokens |-> <<[t |-> "dots"]>>, refs |-> <<>>]

\* The else branch of 1335-1450 for an F_ARGS opcode on a build with
\* F_HAS_ARGS: [threw, tokens, refs].  No byte is read.  In reassembly mode
\* the arguments are "..."; otherwise "... " and either the matching error
\* or one token per argument, made from arg_stack_values[z].  StackArgForm
\* is the format the switches on arg_def.type and arg_value.type choose
\* (1347-1437), "" when the argument's type throws.
DasmStackArgs(def, reassembly_mode, arg_stack) ==
  LET Pick(arg_value, forms) ==
        IF arg_value.type \in DOMAIN forms THEN forms[arg_value.type] ELSE "/* invalid-type */"
      StackArgForm(arg_def, arg_value) ==
        CASE arg_def.type \in {"LABEL16", "LABEL32"} ->
               Pick(arg_value, [REG |-> "r%u/* warning: cannot determine label data type */",
                                LABEL |-> "label%04X", INT |-> "label%04X"])
          [] arg_def.type \in {"REG", "REG32"} ->
               Pick(arg_value, [REG |-> "regs[r%u]", INT |-> "r%u"])
          [] arg_def.type \in {"REG_SET_FIXED", "REG32_SET_FIXED"} ->
               Pick(arg_value, [REG |-> "regs[r%u]-regs[r%u+%hhu]", INT |-> "r%u-r%hhu"])
          [] arg_def.type \in {"INT8", "INT16", "INT32"} ->
               Pick(arg_value, [REG |-> "r%u", REG_PTR |-> "&r%u", INT |-> "0x%X /* %u */"])
          [] arg_def.type = "FLOAT32" -> Pick(arg_value, [REG |-> "f%u", INT |-> "%g"])
          [] arg_def.type = "CSTRING" -> Pick(arg_value, [CSTRING |-> "escape_string"])
          [] OTHER -> ""
      n == Len(def.args)
      thrown == {z \in 1 .. n : StackArgForm(def.args[z], arg_stack[z]) = ""}
      upto == IF thrown = {} THEN n ELSE Min(thrown) - 1
      labelled == {z \in 1 .. upto : /\ def.args[z].type \in {"LABEL16", "LABEL32"}
                                     /\ arg_stack[z].type \in {"LABEL", "INT"}
                                     /\ "as_int" \in DOMAIN arg_stack[z]}
      Ref(z) == [label_id |-> arg_stack[z].as_int, data_type |-> def.args[z].data_type,
                 enqueue |-> FALSE]
      RECURSIVE Refs(_)
      Refs(z) == IF z > upto THEN <<>>
                 ELSE (IF z \in labelled THEN <<Ref(z)>> ELSE <<>>) \o Refs(z + 1)
  IN
  IF reassembly_mode THEN [threw |-> "", tokens |-> <<[t |-> "dots"]>>, refs |-> <<>>]
  ELSE IF n # Len(arg_stack)
  THEN [threw |-> "",
        tokens |-> <<[t |-> "dots"],
                     [t |-> "matching error", expected |-> n, received |-> Len(arg_stack)]>>,
        refs |-> <<>>]
  ELSE IF thrown # {}
  THEN [threw |-> "set-type arg found on arg stack", tokens |-> <<>>, refs |-> Refs(1)]
  ELSE [threw |-> "",
        tokens |-> <<[t |-> "dots"]>>
                   \o [z \in 1 .. n |->
                        [t |-> "stack", form |-> StackArgForm(def.args[z], arg_stack[z]),
                         of |-> arg_stack[z], count |-> def.args[z].count]],
        refs |-> Refs(1)]

\* a decoder whose reader does not move: every instruction is a failure that
\* ends where it started
DasmInstrStuck(code, opcode_start_offset, o, has_args, use_wstrs, known, def, reassembly_mode, arg_stack) ==
  [line |-> [kind |-> "directive", name |-> ".failed"], where |-> opcode_start_offset,
   refs |-> <<>>, arg_stack |-> arg_stack]

\* The body of the inner loop from the opcode read to line_text (1155-1473):
\* [line, where, refs, arg_stack].  o is what the opcode read at
\* opcode_start_offset gave, known and def what opcodes.at(opcode) gave,
\* arg_stack the arg_stack_values before.  arg_stack_values is cleared at
\* 1452-1454 only, which an unknown opcode and a throw do not reach.  The
\* line is dasm_line in reassembly mode; otherwise it stands after the offset
\* and the hex of the instruction's bytes, and hex of more than 14 characters
\* is cut to 12 and "...".  A label argument's offset comment of the
\* annotated mode (1194) is not part of the token.
DasmInstr(code, opcode_start_offset, o, has_args, use_wstrs, known, def, reassembly_mode, arg_stack) ==
  LET LineText(where, dasm_line) ==
        IF reassembly_mode THEN dasm_line
        ELSE [kind |-> "listing", offset |-> opcode_start_offset,
              hex |-> IF 2 * (where - opcode_start_offset) > 14
                      THEN SubSeq(code, opcode_start_offset + 1, opcode_start_offset + 6)
                      ELSE SubSeq(code, opcode_start_offset + 1, where),
              cut |-> 2 * (where - opcode_start_offset) > 14,
              dasm_line |-> dasm_line]
      Line(where, dasm_line, refs, stack) ==
        [line |-> LineText(where, dasm_line), where |-> where, refs |-> refs, arg_stack |-> stack]
      Failed(w, refs, stack) == Line(w, [kind |-> "directive", name |-> ".failed"], refs, stack)
      Cleared(stack) == IF BitSet(def.flags, F_PASS) THEN stack ELSE <<>>
      Args(r) ==
        IF r.threw # "" THEN Failed(r.where, r.refs, arg_stack \o r.pushed)
        ELSE Line(r.where, [kind |-> "code", name |-> def.name, args |-> r.tokens],
                  r.refs, Cleared(arg_stack \o r.pushed))
      StackArgs(r) ==
        IF r.threw # "" THEN Failed(o.where, r.refs, arg_stack)
        ELSE Line(o.where, [kind |-> "code", name |-> def.name, args |-> r.tokens],
                  r.refs, Cleared(arg_stack))
  IN
  IF ~o.ok THEN Failed(o.where, <<>>, arg_stack)
  ELSE IF ~known
  THEN Line(o.where, [kind |-> "directive", name |-> ".unknown", opcode |-> o.opcode],
            <<>>, arg_stack)
  ELSE IF ~has_args \/ ~BitSet(def.flags, F_ARGS)
  THEN Args(DasmArgs(code, o.where, def.args, 1, def, use_wstrs))
  ELSE StackArgs(DasmStackArgs(def, reassembly_mode, arg_stack))

\* l->references.emplace(opcode_start_offset) and
\* l->add_data_type(arg.data_type) for every reference to a function the
\* table has (1187-1200, 1212-1225, 1361-1367)
Referenced(function_table, refs, opcode_start_offset) ==
  [z \in DOMAIN function_table |->
    LET mine == {j \in DOMAIN refs : refs[j].label_id = z - 1} IN
    [function_table[z] EXCEPT
       !.type_flags = @ \cup {refs[i].data_type : i \in mine},
       !.references = IF mine = {} THEN @ ELSE @ \cup {opcode_start_offset}]]

\* pending_dasm_start_offsets.emplace(l->offset) for the SCRIPT references
ReferencedOffsets(function_table, refs) ==
  {function_table[refs[i].label_id + 1].offset :
     i \in {j \in DOMAIN refs : /\ refs[j].label_id < Len(function_table)
                                 /\ refs[j].enqueue
                                 /\ refs[j].data_type = "SCRIPT"}}

\* whether the inner loop's test finds a line for the offset already
AlreadyDecoded(dasm_lines, where) == where \in DOMAIN dasm_lines

\* add_disassembly_lines(start_offset, size) from z on: the lines it adds;
\* when it throws, a last element [kind |-> "threw"] says so
RECURSIVE DisassemblyLines(_, _, _)
DisassemblyLines(dasm_lines, z, end) ==
  IF z >= end THEN <<>>
  ELSE IF z \notin DOMAIN dasm_lines THEN <<[kind |-> "threw", what |-> "map::at"]>>
  ELSE IF dasm_lines[z].next_offset <= z
  THEN <<dasm_lines[z].line, [kind |-> "threw", what |-> "line points backward or to itself"]>>
  ELSE <<dasm_lines[z].line>> \o DisassemblyLines(dasm_lines, dasm_lines[z].next_offset, end)

\* offset_to_label in iteration order: the functions whose offset is inside
\* the code, by offset and, at one offset, in the order they were read
OffsetToLabel(function_table, size) ==
  LET inside == {z \in DOMAIN function_table : InCode(function_table[z].offset, size)}
      Before(y, z) ==
        \/ U32Before(function_table[y].offset, function_table[z].offset)
        \/ function_table[y].offset = function_table[z].offset /\ y < z
  IN [i \in 1 .. Cardinality(inside) |->
       CHOOSE z \in inside : Cardinality({y \in inside : Before(y, z)}) = i - 1]

\* the loop over offset_to_label from its i-th element on (1477-1679): the
\* lines it adds, ending with [kind |-> "threw"] when add_disassembly_lines
\* threw.  The annotated mode prints, before the code, the interpretations
\* of the label's bytes (1541-1674): here one comment line and one line of
\* data for each data type the label has; the layout of the structures, the
\* string decoding and the image decompression are not modelled further.
RECURSIVE RenderLabels(_, _, _, _, _, _)
RenderLabels(code, function_table, dasm_lines, order, i, reassembly_mode) ==
  IF i > Len(order) THEN <<>>
  ELSE LET l == function_table[order[i]]
           offset == get_u32l(l.offset, 0)
           size == (IF i = Len(order) THEN Len(code)
                    ELSE get_u32l(function_table[order[i + 1]].offset, 0)) - offset
           script == l.type_flags = {} \/ "SCRIPT" \in l.type_flags
           Dump(data_type) ==
             IF data_type \in l.type_flags
             THEN <<[kind |-> "comment"],
                    [kind |-> "dump", data_type |-> data_type,
                     data |-> SubSeq(code, offset + 1, offset + size)]>>
             ELSE <<>>
           DataDumps ==
             Dump("DATA") \o Dump("CSTRING") \o Dump("PLAYER_VISUAL_CONFIG")
             \o Dump("PLAYER_STATS") \o Dump("RESIST_DATA") \o Dump("ATTACK_DATA")
             \o Dump("MOVEMENT_DATA") \o Dump("IMAGE_DATA") \o Dump("UNKNOWN_F8F2_DATA")
           section ==
             (IF size > 0 THEN <<[kind |-> "empty"]>> ELSE <<>>)
             \o (IF reassembly_mode
                 THEN <<[kind |-> "label", name |-> l.name, index |-> l.function_id]>>
                 ELSE <<[kind |-> "label", name |-> l.name, index |-> -1]>>
                      \o (IF l.references = {} THEN <<>> ELSE <<[kind |-> "comment"]>>))
             \o (IF l.type_flags = {} THEN <<[kind |-> "comment"]>> ELSE <<>>)
             \o (IF reassembly_mode
                 THEN (IF script THEN DisassemblyLines(dasm_lines, offset, offset + size)
                       ELSE <<[kind |-> "directive", name |-> ".data",
                               data |-> SubSeq(code, offset + 1, offset + size)]>>)
                 ELSE DataDumps
                      \o (IF script THEN DisassemblyLines(dasm_lines, offset, offset + size)
                          ELSE <<>>))
       IN
       IF section[Len(section)].kind = "threw" THEN section
       ELSE section \o RenderLabels(code, function_table, dasm_lines, order, i + 1, reassembly_mode)

NoFile ==
  [version |-> -1, header |-> [quest_number |-> 0, joinable |-> 0, name |-> ""],
   code |-> <<>>, function_table |-> <<>>, reassembly_mode |-> TRUE]

DaIdle ==
  /\ da_in = NoFile
  /\ da_function_table = <<>>
  /\ da_pending = {}
  /\ da_dasm_lines = EmptyIndex
  /\ da_where = 0
  /\ da_arg_stack = <<>>
  /\ da_walk = <<>>
  /\ da_decoded = 0
  /\ da_out = <<>>
  /\ da_pc = "idle"

\* disassemble_quest_script is called on a file
DasmCall(file) ==
  /\ da_in' = file
  /\ da_function_table' = <<>>
  /\ da_pending' = {}
  /\ da_dasm_lines' = EmptyIndex
  /\ da_where' = 0
  /\ da_arg_stack' = <<>>
  /\ da_walk' = <<>>
  /\ da_decoded' = 0
  /\ da_out' = <<>>
  /\ da_pc' = "start"

\* the header, the function table and the first pending offsets (959-1145)
DasmStart ==
  /\ da_pc = "start"
  /\ \E table \in {ReadFunctionTable(da_in.function_table)} :
       /\ da_function_table' = table
       /\ da_pending' = {table[z].offset :
                           z \in {y \in DOMAIN table : InCode(table[y].offset, Len(da_in.code))}}
  /\ da_out' = DasmHeaderLines(da_in.version, da_in.header)
  /\ da_pc' = "pop"
  /\ UNCHANGED <<da_in, da_dasm_lines, da_where, da_arg_stack, da_walk, da_decoded>>

\* The outer loop takes the smallest pending offset and starts with an
\* empty arg_stack_values (1148-1153).  A reader sent past the end is at eof
\* and where() is not read then, so the end of the code stands for every
\* such position.
DasmPop ==
  /\ da_pc = "pop"
  /\ da_pending # {}
  /\ \E first \in {CHOOSE a \in da_pending : \A b \in da_pending : b = a \/ U32Before(a, b)} :
       /\ da_where' = IF InCode(first, Len(da_in.code)) THEN get_u32l(first, 0) ELSE Len(da_in.code)
       /\ da_pending' = da_pending \ {first}
  /\ da_arg_stack' = <<>>
  /\ da_walk' = <<>>
  /\ da_pc' = "walk"
  /\ UNCHANGED <<da_in, da_function_table, da_dasm_lines, da_decoded, da_out>>

\* one pass of the inner loop (1154-1474)
DasmDecode ==
  /\ da_pc = "walk"
  /\ da_where < Len(da_in.code)
  /\ ~AlreadyDecoded(da_dasm_lines, da_where)
  /\ \E o \in {ReadOpcode(da_in.code, da_where)} :
     \E z \in {IF o.ok THEN opcode_at(da_in.version, o.opcode) ELSE 0} :
     \E def \in {opcode_defs[IF z = 0 THEN 1 ELSE z]} :
     \E r \in {DasmInstr(da_in.code, da_where, o, version_has_args(da_in.version),
                         da_in.version \in {PC_NTE, PC_V2, BB_V4}, z # 0, def,
                         da_in.reassembly_mode, da_arg_stack)} :
       /\ da_function_table' = Referenced(da_function_table, r.refs, da_where)
       /\ da_pending' = da_pending \cup ReferencedOffsets(da_function_table, r.refs)
       /\ da_dasm_lines' =
            IF da_where \in DOMAIN da_dasm_lines THEN da_dasm_lines
            ELSE [w \in DOMAIN da_dasm_lines \cup {da_where} |->
                   IF w = da_where
                   THEN [line |-> r.line, next_offset |-> r.where]
                   ELSE da_dasm_lines[w]]
       /\ da_where' = r.where
       /\ da_arg_stack' = r.arg_stack
       /\ da_walk' = Append(da_walk, [offset |-> da_where,
                                      flags |-> IF o.ok /\ z # 0 THEN def.flags ELSE 0])
  /\ da_decoded' = da_decoded + 1
  /\ UNCHANGED <<da_in, da_out, da_pc>>

\* the inner loop's test fails: back to the outer loop
DasmWalkEnd ==
  /\ da_pc = "walk"
  /\ ~(da_where < Len(da_in.code) /\ ~AlreadyDecoded(da_dasm_lines, da_where))
  /\ da_pc' = "pop"
  /\ UNCHANGED <<da_in, da_function_table, da_pending, da_dasm_lines, da_where, da_arg_stack,
                 da_walk, da_decoded, da_out>>

\* nothing is pending: the labels are written out and the text returned (1477-1682)
DasmRender ==
  /\ da_pc = "pop"
  /\ da_pending = {}
  /\ \E order \in {OffsetToLabel(da_function_table, Len(da_in.code))} :
     \E lines \in {RenderLabels(da_in.code, da_function_table, da_dasm_lines, order, 1,
                                 da_in.reassembly_mode)} :
       /\ da_out' = da_out \o lines \o <<[kind |-> "empty"]>>
       /\ da_pc' = IF lines # <<>> /\ lines[Len(lines)].kind = "threw" THEN "threw" ELSE "done"
  /\ UNCHANGED <<da_in, da_function_table, da_pending, da_dasm_lines, da_where, da_arg_stack,
                 da_walk, da_decoded>>

-----------------------------------------------------------------------------
(* The files the disassembler is run on, the sources the assembler is run  *)
(* on, and the round trip assemble, disassemble, assemble.                 *)

VARIABLES
  rt_first,   \* what the first assemble_quest_script returned
  rt_pc

rtVars == <<rt_first, rt_pc>>

\* longest code region, in instructions, and longest function table
MaxDaInstrs == 2
MaxDaFunctions == 3

\* nop, ret, jmp to functions 0 and 1, switch_jmp with two targets, message
\* (its arguments come from the arg stack on this build), an opcode no build
\* has, a jmp without its argument and a lone F8 prefix
DaInstrBytes ==
  {<<0>>, <<1>>, <<40, 0, 0>>, <<40, 1, 0>>, <<64, 0, 2, 1, 0, 0, 0>>, <<80>>,
   <<171>>, <<40>>, <<248>>}

\* longest code region, in instructions, of the files for the argument stack
MaxDaStackInstrs == 3

\* The files: code of the instructions above with function-table entries at
\* offsets 0, 1 and 3, which are inside the longer code regions and outside
\* the shorter ones, and at the sentinel FFFFFFFF, which is outside every
\* code region; and, for the argument stack, files of one function in both
\* modes, on a build with F_HAS_ARGS and on one without, made of arg_pushr r5,
\* arg_pushb 0x12, arg_pushs "h", arg_pushl cut short, message without and
\* with its arguments in the code, an opcode no build has, nop and ret.
DaFiles ==
  LET hi == [quest_number |-> 1, joinable |-> 0, name |-> "Hi"]
      stack_instrs ==
        {<<72, 5>>, <<74, 18>>, <<78, 104, 0>>, <<73, 1>>, <<80>>, <<80, 18, 0, 0, 0, 104, 0>>,
         <<171>>, <<0>>, <<1>>}
  IN
  {[version |-> v, header |-> hi, code |-> Flatten(instrs),
    function_table |-> Flatten(table), reassembly_mode |-> TRUE] :
     v \in {GC_V3},
     instrs \in UNION {[1 .. n -> DaInstrBytes] : n \in 0 .. MaxDaInstrs},
     table \in UNION {[1 .. n -> {put_u32l(0), put_u32l(1), put_u32l(3),
                                 <<255, 255, 255, 255>>}] : n \in 1 .. MaxDaFunctions}}
  \cup
  {[version |-> v, header |-> hi, code |-> Flatten(instrs),
    function_table |-> put_u32l(0), reassembly_mode |-> mode] :
     v \in {DC_V2, GC_V3},
     instrs \in UNION {[1 .. n -> stack_instrs] : n \in 1 .. MaxDaStackInstrs},
     mode \in BOOLEAN}

DaInit ==
  /\ da_in \in DaFiles
  /\ da_function_table = <<>>
  /\ da_pending = {}
  /\ da_dasm_lines = EmptyIndex
  /\ da_where = 0
  /\ da_arg_stack = <<>>
  /\ da_walk = <<>>
  /\ da_decoded = 0
  /\ da_out = <<>>
  /\ da_pc = "start"

\* longest body of a source, in lines
MaxAsmLines == 3

\* the metadata lines of the sources
AsmHeaders ==
  {<<[kind |-> "directive", name |-> ".version", version |-> v],
     [kind |-> "directive", name |-> ".quest_num", num |-> 1],
     [kind |-> "directive", name |-> ".name", str |-> "Hi"]>> : v \in {DC_NTE, GC_V3, BB_V4}}
  \cup {<<[kind |-> "directive", name |-> ".version", version |-> BB_V4],
          [kind |-> "directive", name |-> ".quest_num", num |-> 1],
          [kind |-> "directive", name |-> ".joinable", arg |-> "1"],
          [kind |-> "directive", name |-> ".name", str |-> "Hi"]>>}

\* the label and code lines of the sources: `start:`, `a:`, `b:`, `a@2:`,
\* `a@1:`, `b@2:`, `start@1:`, nop, ret, va_start (which the builds before
\* V3 do not have), jmp to start and to a, and `message 0x12, "hello"`
AsmBodyLines ==
  {[kind |-> "label", name |-> "start", index |-> -1],
   [kind |-> "label", name |-> "a", index |-> -1],
   [kind |-> "label", name |-> "b", index |-> -1],
   [kind |-> "label", name |-> "a", index |-> 2],
   [kind |-> "label", name |-> "a", index |-> 1],
   [kind |-> "label", name |-> "b", index |-> 2],
   [kind |-> "label", name |-> "start", index |-> 1],
   [kind |-> "code", name |-> "nop", args |-> <<>>],
   [kind |-> "code", name |-> "ret", args |-> <<>>],
   [kind |-> "code", name |-> "va_start", args |-> <<>>],
   [kind |-> "code", name |-> "jmp", args |-> <<[t |-> "name", name |-> "start"]>>],
   [kind |-> "code", name |-> "jmp", args |-> <<[t |-> "name", name |-> "a"]>>],
   [kind |-> "code", name |-> "message",
    args |-> <<[t |-> "int", value |-> 18],
               [t |-> "str", units |-> <<104, 101, 108, 108, 111>>]>>]}

AsmSources ==
  {h \o b : h \in AsmHeaders, b \in UNION {[1 .. n -> AsmBodyLines] : n \in 0 .. MaxAsmLines}}

RtIdle == rt_first = NoResult /\ rt_pc = "idle"

RtInit ==
  /\ as_lines \in AsmSources
  /\ as_meta = AsmMetadata(<<>>)
  /\ as_line_num = 0
  /\ as_labels_by_name = EmptyIndex
  /\ as_labels_by_index = EmptyIndex
  /\ as_code_w = <<>>
  /\ as_result = NoResult
  /\ as_pc = "metadata"
  /\ rt_first = NoResult
  /\ rt_pc = "first"

\* the file the first assembly returned goes to the disassembler, for the
\* build its .version named and in reassembly mode
RtDisassemble ==
  /\ rt_pc = "first"
  /\ as_pc = "done"
  /\ as_result.kind = "returned"
  /\ DasmCall([version |-> as_meta.quest_version, header |-> as_result.header,
               code |-> as_result.code, function_table |-> as_result.function_table,
               reassembly_mode |-> TRUE])
  /\ rt_first' = as_result
  /\ rt_pc' = "dasm"

\* the text the disassembler returned goes to the assembler, whose comment
\* strip (2033-2050) leaves an empty line of a line that is only a comment
RtReassemble ==
  /\ rt_pc = "dasm"
  /\ da_pc = "done"
  /\ AsmCall([i \in DOMAIN da_out |->
               IF da_out[i].kind = "comment" THEN [kind |-> "empty"] ELSE da_out[i]])
  /\ rt_pc' = "second"
  /\ UNCHANGED rt_first

-----------------------------------------------------------------------------
(* Single calls of three functions on inputs of their own: the language    *)
(* choice of disassemble_quest_script (966-1043), the comment stripping of *)
(* assemble_quest_script (2033-2050) and                                   *)
(* RegisterAssigner::find_register_number_space (2011-2024) on a register  *)
(* space that is nearly full.                                              *)

VARIABLES
  cl_call,    \* the function called and its arguments: [fn, ...]
  cl_result,  \* what the call gave, <<>> before it
  cl_pc       \* "idle" | "call" | "done"

clVars == <<cl_call, cl_result, cl_pc>>

\* a language choice that takes the header's byte whatever it is
EffectiveLanguageOfHeader(version, override_language, header_language) == header_language

\* uint8_t language of disassemble_quest_script after the switch on version:
\* DC_NTE has no language byte and no use for the override
EffectiveLanguage(version, override_language, header_language) ==
  LET Chosen(supported) ==
        IF override_language # 255 THEN override_language
        ELSE IF header_language < supported THEN header_language
        ELSE 1
  IN
  CASE version = DC_NTE -> 0
    [] version \in {DC_V1_11_2000_PROTOTYPE, DC_V1, DC_V2} -> Chosen(5)
    [] version \in {PC_NTE, PC_V2} -> Chosen(8)
    [] version \in {GC_NTE, GC_V3, GC_EP3_NTE, GC_EP3, XB_V3} -> Chosen(5)
    [] version = BB_V4 -> IF override_language # 255 THEN override_language ELSE 1

\* The body of the loop "Strip comments and whitespace" for one line, a
\* sequence of characters: [threw, line].  find looks at the characters
\* only; it does not know about quotes.
StripComments(line) ==
  LET find(s, pat, pos) ==
        LET at == {i \in pos .. Len(s) - 1 : s[i] = pat[1] /\ s[i + 1] = pat[2]} IN
        IF at = {} THEN 0 ELSE Min(at)
      RECURSIVE Inline(_)
      Inline(s) ==
        LET comment_start == find(s, <<"/", "*">>, 1)
            comment_end == find(s, <<"*", "/">>, comment_start + 2)
        IN
        IF comment_start = 0 THEN [threw |-> "", line |-> s]
        ELSE IF comment_end = 0 THEN [threw |-> "unterminated inline comment", line |-> s]
        ELSE Inline(SubSeq(s, 1, comment_start - 1) \o SubSeq(s, comment_end + 2, Len(s)))
      Resized(s) ==
        LET comment_start == find(s, <<"/", "/">>, 1) IN
        IF comment_start = 0 THEN s ELSE SubSeq(s, 1, comment_start - 1)
      RECURSIVE strip_trailing_whitespace(_)
      strip_trailing_whitespace(s) ==
        IF s # <<>> /\ s[Len(s)] = " " THEN strip_trailing_whitespace(SubSeq(s, 1, Len(s) - 1))
        ELSE s
      RECURSIVE strip_leading_whitespace(_)
      strip_leading_whitespace(s) ==
        IF s # <<>> /\ s[1] = " " THEN strip_leading_whitespace(SubSeq(s, 2, Len(s))) ELSE s
      inline == Inline(line)
  IN
  IF inline.threw # "" THEN inline
  ELSE [threw |-> "",
        line |-> strip_leading_whitespace(strip_trailing_whitespace(Resized(inline.line)))]

\* longest source line, in characters
MaxStripLen == 4
\* most registers in the chain find_register_number_space is asked to place
MaxNumRegs == 3

ClIdle == cl_call = <<>> /\ cl_result = <<>> /\ cl_pc = "idle"

\* The calls: every version with overrides and header language bytes on both
\* sides of the limits 5 and 8; lines of `/`, `*`, `"`, a letter and a
\* space; a register space whose free slots are some of 0, 1, 100, 254
\* and 255; every opcode of the builds whose scripts are walked for the
\* episode, followed by 40 bytes of data; and every row of every build
\* whose arguments are written after the opcode, with one argument of each
\* type: the labels `a` and `[a, start]`, r5, the registers from r3 on,
\* [r1, r2], "hi" and 18.
ClInit ==
  /\ cl_call \in
       {[fn |-> "language", version |-> v, override_language |-> o, header_language |-> h] :
          v \in {DC_NTE, DC_V1_11_2000_PROTOTYPE, DC_V1, DC_V2, PC_NTE, PC_V2, GC_NTE, GC_V3,
                 GC_EP3_NTE, GC_EP3, XB_V3, BB_V4},
          o \in {0, 1, 4, 7, 255}, h \in {0, 4, 5, 7, 8, 255}}
       \cup {[fn |-> "strip", line |-> l] :
               l \in UNION {[1 .. n -> {"/", "*", "\"", "a", " "}] : n \in 0 .. MaxStripLen}}
       \cup {[fn |-> "find_register_number_space", free |-> f, num_regs |-> n] :
               f \in SUBSET {0, 1, 100, 254, 255}, n \in 1 .. MaxNumRegs}
       \cup UNION {{[fn |-> "instruction", version |-> v, opcode |-> opcode_defs[z].opcode, data |-> d] :
                      z \in ActiveRowsOf(opcode_defs, v_flag(v)),
                      d \in {<<1>> \o [i \in 1 .. 39 |-> 0],
                             <<2, 3, 0, 66, 0, 0, 0, 3, 67>> \o [i \in 1 .. 31 |-> 0]}} :
                    v \in {GC_NTE, GC_V3, GC_EP3_NTE, GC_EP3, XB_V3, BB_V4}}
       \cup UNION {{[fn |-> "arguments", version |-> v, z |-> z,
                      args |-> [i \in DOMAIN opcode_defs[z].args |->
                                 LET type == opcode_defs[z].args[i].type
                                     count == opcode_defs[z].args[i].count IN
                                 CASE type \in {"LABEL16", "LABEL32"} -> [t |-> "name", name |-> "a"]
                                   [] type = "LABEL16_SET" -> [t |-> "labels", names |-> <<"a", "start">>]
                                   [] type \in {"REG", "REG32"} -> [t |-> "reg", number |-> 5]
                                   [] type \in {"REG_SET_FIXED", "REG32_SET_FIXED"} ->
                                        [t |-> "regs", numbers |-> [k \in 1 .. count |-> 2 + k]]
                                   [] type = "REG_SET" -> [t |-> "regs", numbers |-> <<1, 2>>]
                                   [] type = "CSTRING" -> [t |-> "str", units |-> <<104, 105>>]
                                   [] OTHER -> [t |-> "int", value |-> 18]]] :
                      z \in {r \in ActiveRowsOf(opcode_defs, v_flag(v)) :
                               /\ opcode_defs[r].args # <<>>
                               /\ ~(version_has_args(v) /\ BitSet(opcode_defs[r].flags, F_ARGS))}} :
                    v \in {DC_NTE, DC_V1_11_2000_PROTOTYPE, DC_V1, DC_V2, PC_NTE, PC_V2, GC_NTE,
                           GC_V3, GC_EP3_NTE, GC_EP3, XB_V3, BB_V4}}
  /\ cl_result = <<>>
  /\ cl_pc = "call"

\* the switch (version) of disassemble_quest_script, as far as language goes
CallLanguage ==
  /\ cl_pc = "call"
  /\ cl_call.fn = "language"
  /\ cl_result' = <<EffectiveLanguage(cl_call.version, cl_call.override_language,
                                      cl_call.header_language)>>
  /\ cl_pc' = "done"
  /\ UNCHANGED cl_call

\* one line through the loop that strips comments and whitespace
CallStrip ==
  /\ cl_pc = "call"
  /\ cl_call.fn = "strip"
  /\ cl_result' = <<StripComments(cl_call.line)>>
  /\ cl_pc' = "done"
  /\ UNCHANGED cl_call

\* find_register_number_space(num_regs) on an assigner whose numbered_regs
\* has a register in every slot that is not free.  The result is the
\* candidate, or -1 for the runtime_error; what numbered_regs[candidate + z]
\* reads past slot 255 is null or not.
CallFindSpace ==
  /\ cl_pc = "call"
  /\ cl_call.fn = "find_register_number_space"
  /\ \E past_end \in BOOLEAN :
       LET taken == (0 .. 255) \ cl_call.free
           a == [regs |-> [i \in 1 .. 256 |-> [NewRegister EXCEPT !.number = IF i - 1 \in taken THEN i - 1 ELSE -1]],
                 named_regs |-> [n \in {} |-> 0],
                 numbered_regs |-> [n \in taken |-> n + 1]]
       IN cl_result' = <<[candidate |-> find_register_number_space(a, cl_call.num_regs, past_end),
                          past_end |-> past_end]>>
  /\ cl_pc' = "done"
  /\ UNCHANGED cl_call

\* One instruction as find_quest_episode_from_script walks it and as
\* disassemble_quest_script decodes it, both from offset 0 of the same bytes
\* and with nothing on the argument stack: where each reader stands afterwards
\* and what was thrown.
CallInstruction ==
  /\ cl_pc = "call"
  /\ cl_call.fn = "instruction"
  /\ LET v == cl_call.version
         code == put_opcode(cl_call.opcode) \o cl_call.data
         o == ReadOpcode(code, 0)
         z == IF o.ok THEN opcode_at(v, o.opcode) ELSE 0
         def == opcode_defs[IF z = 0 THEN 1 ELSE z]
         ep == EpisodeWalkBody(code, 0, v, v = BB_V4, {})
         da == DasmInstr(code, 0, o, version_has_args(v), v \in {PC_NTE, PC_V2, BB_V4},
                         z # 0, def, TRUE, <<>>)
     IN cl_result' = <<[z |-> z, episode_threw |-> ep.threw, episode_where |-> ep.where,
                        dasm_failed |-> da.line.name = ".failed", dasm_where |-> da.where]>>
  /\ cl_pc' = "done"
  /\ UNCHANGED cl_call

\* The arguments of one source line as the assembler writes them after the
\* opcode, and the same bytes as the disassembler's argument loop reads them.
\* The labels a and start have the indexes 1 and 0.
CallArguments ==
  /\ cl_pc = "call"
  /\ cl_call.fn = "arguments"
  /\ LET v == cl_call.version
         def == opcode_defs[cl_call.z]
         labels_by_name == ("start" :> [index |-> 0, offset |-> 0]) @@ ("a" :> [index |-> 1, offset |-> 0])
         asm == AsmArgs(v, labels_by_name, def.args, cl_call.args, 1, FALSE)
         da == DasmArgs(asm.bytes, 0, def.args, 1, def, v \in {PC_NTE, PC_V2, BB_V4})
     IN cl_result' = <<[asm_threw |-> asm.threw, written |-> Len(asm.bytes),
                        dasm_threw |-> da.threw, dasm_where |-> da.where]>>
  /\ cl_pc' = "done"
  /\ UNCHANGED cl_call
-----------------------------------------------------------------------------
(* LicenseIndex (unnamed/part_000 111-288): the three maps and the calls   *)
(* that change them.                                                       *)

VARIABLES
  serial_number_to_license,  \* serial number -> license
  bb_username_to_license,    \* BB username -> license
  xb_gamertag_to_license,    \* XB gamertag -> license
  li_created,                \* how many License objects the callers have made
  li_pc                      \* "idle" | "run"

liVars == <<serial_number_to_license, bb_username_to_license, xb_gamertag_to_license,
            li_created, li_pc>>

\* most License objects the callers make
MaxLicenses == 3

LiIdle ==
  /\ serial_number_to_license = <<>> /\ bb_username_to_license = <<>>
  /\ xb_gamertag_to_license = <<>> /\ li_created = 0 /\ li_pc = "idle"

\* a LicenseIndex as constructed: three empty maps
LiInit ==
  /\ serial_number_to_license = <<>> /\ bb_username_to_license = <<>>
  /\ xb_gamertag_to_license = <<>> /\ li_created = 0 /\ li_pc = "run"

\* void LicenseIndex::add(shared_ptr<License> l), with a License the caller
\* has just made; id tells the objects apart as the pointers do
LicenseIndexAdd ==
  /\ li_pc = "run"
  /\ li_created < MaxLicenses
  /\ \E serial_number \in {1, 2}, bb_username \in {"", "x", "y"}, xb_gamertag \in {"", "g"} :
       LET l == [id |-> li_created + 1, serial_number |-> serial_number,
                 bb_username |-> bb_username, xb_gamertag |-> xb_gamertag]
       IN
       /\ serial_number_to_license' = (serial_number :> l) @@ serial_number_to_license
       /\ bb_username_to_license' =
            IF bb_username # "" THEN (bb_username :> l) @@ bb_username_to_license
            ELSE bb_username_to_license
       /\ xb_gamertag_to_license' =
            IF xb_gamertag # "" THEN (xb_gamertag :> l) @@ xb_gamertag_to_license
            ELSE xb_gamertag_to_license
  /\ li_created' = li_created + 1
  /\ UNCHANGED li_pc

\* void LicenseIndex::remove(uint32_t serial_number); for a serial number
\* the index does not have, at() throws and nothing changes
LicenseIndexRemove ==
  /\ li_pc = "run"
  /\ \E serial_number \in DOMAIN serial_number_to_license :
       LET l == serial_number_to_license[serial_number]
           erase(map, key) == [k \in DOMAIN map \ {key} |-> map[k]]
       IN
       /\ serial_number_to_license' = erase(serial_number_to_license, l.serial_number)
       /\ bb_username_to_license' =
            IF l.bb_username # "" THEN erase(bb_username_to_license, l.bb_username)
            ELSE bb_username_to_license
       /\ xb_gamertag_to_license' =
            IF l.xb_gamertag # "" THEN erase(xb_gamertag_to_license, l.xb_gamertag)
            ELSE xb_gamertag_to_license
  /\ UNCHANGED <<li_created, li_pc>>
-----------------------------------------------------------------------------
(* Specifications.                                                         *)

vars == <<ixVars, obVars, epVars, raVars, asVars, daVars, rtVars, clVars, liVars>>

\* building one lookup index
InitIndex == IxInit /\ ObIdle /\ EpIdle /\ RaIdle /\ AsIdle /\ DaIdle /\ RtIdle /\ ClIdle /\ LiIdle
NextIndex ==
  \/ IndexLoopBody /\ UNCHANGED <<obVars, epVars, raVars, asVars, daVars, rtVars, clVars, liVars>>
  \/ IndexReturn /\ UNCHANGED <<obVars, epVars, raVars, asVars, daVars, rtVars, clVars, liVars>>
SpecIndex == InitIndex /\ [][NextIndex]_vars

\* one opcode through the assembler's emit and the disassembler's read
InitOpcodeBytes == ObInit /\ IxIdle /\ EpIdle /\ RaIdle /\ AsIdle /\ DaIdle /\ RtIdle /\ ClIdle /\ LiIdle
NextOpcodeBytes ==
  \/ ObEmit /\ UNCHANGED <<ixVars, epVars, raVars, asVars, daVars, rtVars, clVars, liVars>>
  \/ ObRead /\ UNCHANGED <<ixVars, epVars, raVars, asVars, daVars, rtVars, clVars, liVars>>
SpecOpcodeBytes == InitOpcodeBytes /\ [][NextOpcodeBytes]_vars

\* one call of find_quest_episode_from_script
InitEpisode == EpInit /\ IxIdle /\ ObIdle /\ RaIdle /\ AsIdle /\ DaIdle /\ RtIdle /\ ClIdle /\ LiIdle
NextEpisode ==
  \/ EpisodeReadHeader /\ UNCHANGED <<ixVars, obVars, raVars, asVars, daVars, rtVars, clVars, liVars>>
  \/ EpisodeEnterWalk /\ UNCHANGED <<ixVars, obVars, raVars, asVars, daVars, rtVars, clVars, liVars>>
  \/ EpisodeWalkStep /\ UNCHANGED <<ixVars, obVars, raVars, asVars, daVars, rtVars, clVars, liVars>>
  \/ EpisodeWalkEof /\ UNCHANGED <<ixVars, obVars, raVars, asVars, daVars, rtVars, clVars, liVars>>
  \/ EpisodeFinish /\ UNCHANGED <<ixVars, obVars, raVars, asVars, daVars, rtVars, clVars, liVars>>
SpecEpisode == InitEpisode /\ [][NextEpisode]_vars

\* the register arguments of one source, then assign_all
InitRegisters == RaInit /\ IxIdle /\ ObIdle /\ EpIdle /\ AsIdle /\ DaIdle /\ RtIdle /\ ClIdle /\ LiIdle
NextRegisters ==
  \/ RaParseReg /\ UNCHANGED <<ixVars, obVars, epVars, asVars, daVars, rtVars, clVars, liVars>>
  \/ RaParseRegSetFixed /\ UNCHANGED <<ixVars, obVars, epVars, asVars, daVars, rtVars, clVars, liVars>>
  \/ AssignAllBegin /\ UNCHANGED <<ixVars, obVars, epVars, asVars, daVars, rtVars, clVars, liVars>>
  \/ AssignAllStep /\ UNCHANGED <<ixVars, obVars, epVars, asVars, daVars, rtVars, clVars, liVars>>
  \/ AssignAllEnd /\ UNCHANGED <<ixVars, obVars, epVars, asVars, daVars, rtVars, clVars, liVars>>
SpecRegisters == InitRegisters /\ [][NextRegisters]_vars


\* one call of disassemble_quest_script; the loops run until their tests fail
InitDisassemble == DaInit /\ IxIdle /\ ObIdle /\ EpIdle /\ RaIdle /\ AsIdle /\ RtIdle /\ ClIdle /\ LiIdle
NextDisassemble ==
  \/ DasmStart /\ UNCHANGED <<ixVars, obVars, epVars, raVars, asVars, rtVars, clVars, liVars>>
  \/ DasmPop /\ UNCHANGED <<ixVars, obVars, epVars, raVars, asVars, rtVars, clVars, liVars>>
  \/ DasmDecode /\ UNCHANGED <<ixVars, obVars, epVars, raVars, asVars, rtVars, clVars, liVars>>
  \/ DasmWalkEnd /\ UNCHANGED <<ixVars, obVars, epVars, raVars, asVars, rtVars, clVars, liVars>>
  \/ DasmRender /\ UNCHANGED <<ixVars, obVars, epVars, raVars, asVars, rtVars, clVars, liVars>>
SpecDisassemble == InitDisassemble /\ [][NextDisassemble]_vars /\ WF_vars(NextDisassemble)

\* assemble a source, disassemble the file, assemble the text
InitRoundTrip == RtInit /\ IxIdle /\ ObIdle /\ EpIdle /\ RaIdle /\ DaIdle /\ ClIdle /\ LiIdle
NextRoundTrip ==
  \/ AsmReadMetadata /\ UNCHANGED <<ixVars, obVars, epVars, raVars, daVars, rtVars, clVars, liVars>>
  \/ AsmCollectLabel /\ UNCHANGED <<ixVars, obVars, epVars, raVars, daVars, rtVars, clVars, liVars>>
  \/ AsmAssignIndexes /\ UNCHANGED <<ixVars, obVars, epVars, raVars, daVars, rtVars, clVars, liVars>>
  \/ AsmCodeLine /\ UNCHANGED <<ixVars, obVars, epVars, raVars, daVars, rtVars, clVars, liVars>>
  \/ AsmFinish /\ UNCHANGED <<ixVars, obVars, epVars, raVars, daVars, rtVars, clVars, liVars>>
  \/ RtDisassemble /\ UNCHANGED <<ixVars, obVars, epVars, raVars, asVars, clVars, liVars>>
  \/ DasmStart /\ UNCHANGED <<ixVars, obVars, epVars, raVars, asVars, rtVars, clVars, liVars>>
  \/ DasmPop /\ UNCHANGED <<ixVars, obVars, epVars, raVars, asVars, rtVars, clVars, liVars>>
  \/ DasmDecode /\ UNCHANGED <<ixVars, obVars, epVars, raVars, asVars, rtVars, clVars, liVars>>
  \/ DasmWalkEnd /\ UNCHANGED <<ixVars, obVars, epVars, raVars, asVars, rtVars, clVars, liVars>>
  \/ DasmRender /\ UNCHANGED <<ixVars, obVars, epVars, raVars, asVars, rtVars, clVars, liVars>>
  \/ RtReassemble /\ UNCHANGED <<ixVars, obVars, epVars, raVars, daVars, clVars, liVars>>
SpecRoundTrip == InitRoundTrip /\ [][NextRoundTrip]_vars


\* one call of one of the three functions
InitCalls ==
  ClInit /\ IxIdle /\ ObIdle /\ EpIdle /\ RaIdle /\ AsIdle /\ DaIdle /\ RtIdle /\ LiIdle
NextCalls ==
  \/ CallLanguage /\ UNCHANGED <<ixVars, obVars, epVars, raVars, asVars, daVars, rtVars, liVars>>
  \/ CallStrip /\ UNCHANGED <<ixVars, obVars, epVars, raVars, asVars, daVars, rtVars, liVars>>
  \/ CallFindSpace /\ UNCHANGED <<ixVars, obVars, epVars, raVars, asVars, daVars, rtVars, liVars>>
  \/ CallInstruction /\ UNCHANGED <<ixVars, obVars, epVars, raVars, asVars, daVars, rtVars, liVars>>
  \/ CallArguments /\ UNCHANGED <<ixVars, obVars, epVars, raVars, asVars, daVars, rtVars, liVars>>
SpecCalls == InitCalls /\ [][NextCalls]_vars

\* calls of LicenseIndex::add and LicenseIndex::remove on one index
InitLicenses ==
  LiInit /\ IxIdle /\ ObIdle /\ EpIdle /\ RaIdle /\ AsIdle /\ DaIdle /\ RtIdle /\ ClIdle
NextLicenses ==
  \/ LicenseIndexAdd /\ UNCHANGED <<ixVars, obVars, epVars, raVars, asVars, daVars, rtVars, clVars>>
  \/ LicenseIndexRemove /\ UNCHANGED <<ixVars, obVars, epVars, raVars, asVars, daVars, rtVars, clVars>>
SpecLicenses == InitLicenses /\ [][NextLicenses]_vars
-----------------------------------------------------------------------------
(* Claims about the opcode dictionary and the opcode bytes.                 *)

\* keys a row contributes to the index of kind fn
RowKeys(fn, def) == IF fn = "opcodes_for_version" THEN {def.opcode} ELSE NameKeys(def)

\* no two rows of defs active under the flag vf share a key (an opcode, or a
\* mnemonic counting both name and qedit_name), and no row's name equals its
\* own qedit_name
KeysUnique(fn, defs, vf) ==
  /\ \A i \in ActiveRowsOf(defs, vf) : \A j \in ActiveRowsOf(defs, vf) :
       i < j => RowKeys(fn, defs[i]) \cap RowKeys(fn, defs[j]) = {}
  /\ \A i \in ActiveRowsOf(defs, vf) : defs[i].name # defs[i].qedit_name

\* C3: for each of the twelve active builds no two active rows share an opcode
\* and no two share a mnemonic (name or qedit_name); building an index throws
\* exactly when the rows active under the version's flag bit have a duplicate
\* key, and returns an index holding every active row's keys otherwise.
C3_IndexUnique ==
  /\ (ix_pc \in {"loop", "returned", "threw"} /\ ix_call.v \in ActiveVersions) =>
       ix_pc # "threw"
  /\ ix_pc = "returned" =>
       /\ KeysUnique(ix_call.fn, opcode_defs, v_flag(ix_call.v))
       /\ \A z \in ActiveRowsOf(opcode_defs, v_flag(ix_call.v)) :
            \A k \in RowKeys(ix_call.fn, opcode_defs[z]) : k \in DOMAIN ix_index /\ ix_index[k] = z
       /\ ix_index = (IF ix_call.fn = "opcodes_for_version" THEN opcode_indexes[ix_call.v]
                      ELSE name_indexes[ix_call.v])
  /\ ix_pc = "threw" =>
       /\ ~KeysUnique(ix_call.fn, opcode_defs, v_flag(ix_call.v))
       /\ IF ix_call.fn = "opcodes_for_version" THEN BuildOpcodeIndex(opcode_defs, v_flag(ix_call.v)).threw
          ELSE BuildNameIndex(opcode_defs, v_flag(ix_call.v)).threw

\* C3 witness: the by-name index of BB_V4 was built to the end and holds both
\* mnemonics of a row that has a qedit_name
C3_Witness ==
  /\ ix_pc = "returned"
  /\ ix_call = [fn |-> "opcodes_by_name_for_version", v |-> BB_V4]
  /\ "jmp_eq" \in DOMAIN ix_index /\ "jmp_=" \in DOMAIN ix_index

\* C7: every row's opcode is written as one byte when its high byte is 0 and as
\* two bytes, high byte first, otherwise; the disassembler's prefix rule reads
\* those bytes back as the same 16-bit opcode and consumes exactly the opcode's
\* bytes; the line `get_difficulty_level_v2 r5` gives the bytes F8 08 05.
C7_OpcodeBytesRoundTrip ==
  LET def == opcode_defs[ob_row]
      op == def.opcode
      reg == IF def.args = <<ArgN("REG", 0)>> /\ ~BitSet(def.flags, F_ARGS) THEN <<ob_reg>> ELSE <<>>
  IN
  /\ ob_pc \in {"emitted", "read"} =>
       /\ (op \div 256 = 0) => ob_bytes = <<op>> \o reg
       /\ (op \div 256 # 0) => ob_bytes = <<op \div 256, op % 256>> \o reg
       /\ (def.name = "get_difficulty_level_v2" /\ ob_reg = 5) => ob_bytes = <<248, 8, 5>>
  /\ ob_pc = "read" =>
       /\ ob_read.ok
       /\ ob_read.opcode = op
       /\ ob_read.where = Len(ob_bytes) - Len(reg)

\* C7 witness: `get_difficulty_level_v2 r5` went through emit and read
C7_Witness ==
  /\ ob_pc = "read"
  /\ opcode_defs[ob_row].name = "get_difficulty_level_v2"
  /\ BitSet(opcode_defs[ob_row].flags, F_DC_V2)
  /\ ob_bytes = <<248, 8, 5>>
  /\ ob_read.opcode = 63496
-----------------------------------------------------------------------------
(* Claims about the episode detector.                                      *)

\* the walk ran: a build with an episode byte in its header, and a byte that names an episode
EpWalked == ep_pc = "done" /\ ep_header # "NONE"

\* set_episode is an opcode of the file's build
EpHasSetEpisode == opcode_at(ep_in.version, 63676) # 0

\* The episodes the set_episode instructions of function 0 name, read off the
\* instruction list: from instruction i up to the first ret or undecodable one.
\* (A function table behind the code is walked as code when function 0 has no
\* ret; a cut-off set_episode then takes its literal from the table, so the
\* files compared here end their code cleanly or have the table in front.)
RECURSIVE EpisodesSetFrom(_, _)
EpisodesSetFrom(prog, i) ==
  IF i > Len(prog) THEN {}
  ELSE IF prog[i].op \in {"ret", "unknown", "truncated"} THEN {}
  ELSE IF prog[i].op = "set_episode" THEN
    (CASE prog[i].lit = 0 -> {"EP1"} [] prog[i].lit = 1 -> {"EP2"}
       [] prog[i].lit = 2 -> {"EP4"} [] OTHER -> {})
    \cup EpisodesSetFrom(prog, i + 1)
  ELSE EpisodesSetFrom(prog, i + 1)

EpLiteralsValid ==
  \A i \in DOMAIN ep_in.prog :
    /\ ep_in.prog[i].op = "set_episode" => ep_in.prog[i].lit \in {0, 1, 2}
    /\ ep_in.prog[i].op = "truncated" => ~ep_in.table_last

\* C8: once the walk is over, the call returns the one episode found when exactly
\* one distinct episode was found, returns the header's episode when none was
\* found, and fails when more than one was found; in a file whose set_episode
\* literals are all 0, 1 or 2 the episodes found are those of the set_episode
\* instructions of function 0.
C8_ResultByFoundEpisodes ==
  EpWalked =>
    /\ (EpLiteralsValid /\ EpHasSetEpisode) => ep_found = EpisodesSetFrom(ep_in.prog, ep_in.fn0 + 1)
    /\ \A e \in {"EP1", "EP2", "EP4"} :
         ep_found = {e} => ep_result = [kind |-> "returned", episode |-> e, what |-> ""]
    /\ ep_found = {} =>
         /\ ep_result.kind = "returned"
         /\ ep_result.episode = (CASE ep_in.episode \in {0, 255} -> "EP1" [] ep_in.episode = 1 -> "EP2"
                                   [] ep_in.episode = 2 -> "EP4")
    /\ Cardinality(ep_found) > 1 => ep_result.kind = "threw"

\* C8 witness: function 0 sets episode 2 once, behind a skipped string operand
\* and with no ret before the function table, in a file whose header says Ep1;
\* the call returned Ep4.
C8_Witness ==
  /\ EpWalked /\ ep_in.version = BB_V4 /\ ep_in.episode = 255
  /\ ep_in.prog = <<[op |-> "arg_pushs", lit |-> 0], [op |-> "set_episode", lit |-> 2]>>
  /\ ep_in.fn0 = 0 /\ ep_in.table_last
  /\ ep_where = Len(ep_data)
  /\ ep_result = [kind |-> "returned", episode |-> "EP4", what |-> ""]

\* C9: a set_episode literal of 0, 1 or 2 at the start of function 0 is found as
\* Ep1, Ep2 or Ep4, and any other literal makes the call fail.
C9_OtherLiteralFails ==
  (/\ EpWalked /\ EpHasSetEpisode
   /\ ep_in.fn0 < Len(ep_in.prog) /\ ep_in.prog[ep_in.fn0 + 1].op = "set_episode") =>
    LET k == ep_in.prog[ep_in.fn0 + 1].lit IN
    /\ k = 0 => "EP1" \in ep_found
    /\ k = 1 => "EP2" \in ep_found
    /\ k = 2 => "EP4" \in ep_found
    /\ k \notin {0, 1, 2} => ep_result.kind = "threw"

\* C10: when the walk ended in a decode error, the call returns the header's episode.
C10_ErrorReturnsHeader ==
  (EpWalked /\ ep_error # "") =>
    ep_result = [kind |-> "returned", episode |-> ep_header, what |-> ""]

-----------------------------------------------------------------------------
(* Claims about the register assigner.                                     *)

\* C2: after assign_all returns without error every named register has a
\* number in 0..255, no two registers share a number, every pair linked by
\* constrain(prev, next) has next = (prev + 1) mod 256, and every register
\* given an explicit number still has it.
C2_AssignAllPostconditions ==
  ra_pc = "done" =>
    /\ \A n \in DOMAIN ra.named_regs : ra.regs[ra.named_regs[n]].number \in 0 .. 255
    /\ \A i \in DOMAIN ra.regs : \A j \in DOMAIN ra.regs :
         (i # j /\ ra.regs[i].number >= 0) => ra.regs[i].number # ra.regs[j].number
    /\ \A l \in ra_links : ra.regs[l[2]].number = (ra.regs[l[1]].number + 1) % 256
    /\ \A p \in ra_pins : ra.regs[p[1]].number = p[2]


\* second is k constrain links after first
RECURSIVE ChainReach(_, _, _)
ChainReach(first, second, k) ==
  IF k = 0 THEN first = second
  ELSE \E l \in ra_links : l[1] = first /\ ChainReach(l[2], second, k - 1)

\* C15: assign_all does not return without error when two registers of one
\* chain were given explicit numbers that do not differ by their distance in
\* the chain: whenever it returns, any two pinned registers k links apart
\* have numbers k apart (mod 256).
C15_InconsistentPinsFail ==
  ra_pc = "done" =>
    \A p \in ra_pins : \A q \in ra_pins : \A k \in 1 .. MaxRaTokens :
      ChainReach(p[1], q[1], k) => q[2] = (p[2] + k) % 256

\* the registers of the last REG_SET_FIXED argument are chained one after
\* the other
LastChained ==
  LET l == ra_last[1] IN
  /\ l.threw = ""
  /\ Len(l.regs) = l.expected_count
  /\ \A i \in 1 .. Len(l.regs) - 1 : <<l.regs[i], l.regs[i + 1]>> \in ra_links

\* C21: when the first register argument of a source is a REG_SET_FIXED
\* argument of count N, a tuple of N different names, a range rA-rZ of
\* N >= 2 registers (Z = A + N - 1), and a single numbered register rA with
\* A + N - 1 below 256 are all accepted: the argument gives N registers
\* chained one after the other, numbered A, A + 1, ... for the range and the
\* single register.
C21_ThreeFormsAccepted ==
  (ra_last # <<>> /\ ra_tokens = Len(ra_last[1].arg.tokens)) =>
    LET l == ra_last[1]
        t == l.arg.tokens
        N == l.expected_count
        Numbered == \A i \in 1 .. N : ra.regs[l.regs[i]].number = t[1].number + i - 1
    IN
    /\ (/\ l.arg.form = "tuple" /\ Len(t) = N
        /\ \A i \in 1 .. N : t[i].number < 0
        /\ \A i, j \in 1 .. N : i # j => t[i].name # t[j].name) => LastChained
    /\ (/\ l.arg.form = "range" /\ N >= 2 /\ t[1].number >= 0
        /\ t[2].number = t[1].number + N - 1) => LastChained /\ Numbered
    /\ (l.arg.form = "single" /\ t[1].number >= 0 /\ t[1].number + N - 1 < 256) =>
         LastChained /\ Numbered

\* no register is constrained, over any number of links, to come after itself
Acyclic == \A x \in DOMAIN ra.regs : \A k \in 1 .. MaxRaTokens : ~ChainReach(x, x, k)

\* C22: when no register of the source has an explicit number and no chain
\* closes on itself, assign_all does not fail, and when it has returned the
\* members of every chain have consecutive numbers (the register after
\* another has its number plus one).
C22_UnnumberedChainsPlaced ==
  (ra_pins = {} /\ ra_i >= 1 /\ Acyclic) =>
    /\ ra_pc \notin {"threw", "hang"}
    /\ ra_pc = "done" =>
         \A l \in ra_links : ra.regs[l[2]].number = ra.regs[l[1]].number + 1

\* C23: assign_all ends for every set of constraints: it never enters a walk
\* along next or prev links that comes back to a register it has passed
\* without meeting a numbered one (the walk that has no end).
C23_AssignAllTerminates == ra_pc # "hang"
-----------------------------------------------------------------------------
(* Claims about the assembler, the disassembler and their round trip.      *)

\* entry i of the function table bytes of a returned file
TableEntry(bytes, i) == SubSeq(bytes, (4 * i) + 1, (4 * i) + 4)

\* the indexes the labels of the assembled source have
LabelIndexes == {as_labels_by_name[n].index : n \in DOMAIN as_labels_by_name}

\* C5: the function table of a returned file has exactly one entry per index
\* from 0 to the highest label index (every label line of the source has a
\* label, with the index its line gave), and entry i is 0xFFFFFFFF if and only
\* if no label has index i.
C5_FunctionTableEntries ==
  (as_pc = "done" /\ as_result.kind = "returned") =>
    LET highest == CHOOSE i \in LabelIndexes : \A j \in LabelIndexes : j <= i IN
    /\ \A p \in DOMAIN as_lines :
         as_lines[p].kind = "label" =>
           /\ as_lines[p].name \in DOMAIN as_labels_by_name
           /\ as_lines[p].index >= 0 => as_labels_by_name[as_lines[p].name].index = as_lines[p].index
    /\ Len(as_result.function_table) = 4 * (highest + 1)
    /\ \A i \in 0 .. highest :
         (TableEntry(as_result.function_table, i) = <<255, 255, 255, 255>>) <=> (i \notin LabelIndexes)

\* C5 witness: a returned file whose labels leave index 1 unused below index 2
C5_Witness ==
  /\ as_pc = "done"
  /\ as_result.kind = "returned"
  /\ LabelIndexes = {0, 2}
  /\ TableEntry(as_result.function_table, 1) = <<255, 255, 255, 255>>
  /\ TableEntry(as_result.function_table, 2) # <<255, 255, 255, 255>>

\* the bytes a line of the sources must give, read off the opcode table by
\* hand: nop is 00, ret is 01, va_start is 05, jmp is 28 followed by the
\* 16-bit index of the label it names, low byte first, and
\* `message 0x12, "hello"` is 50 12 00 00 00 68 65 6C 6C 6F 00 on DC_NTE,
\* 4A 12 4E 68 65 6C 6C 6F 00 50 on GC_V3 and the same with 16-bit
\* characters on BB_V4; other lines give no bytes
ExpectedBytes(line) ==
  IF line.kind # "code" THEN <<>>
  ELSE CASE line.name = "nop" -> <<0>>
         [] line.name = "ret" -> <<1>>
         [] line.name = "va_start" -> <<5>>
         [] line.name = "message" ->
              IF as_meta.quest_version = DC_NTE
              THEN <<80, 18, 0, 0, 0, 104, 101, 108, 108, 111, 0>>
              ELSE IF as_meta.quest_version = GC_V3
              THEN <<74, 18, 78, 104, 101, 108, 108, 111, 0, 80>>
              ELSE <<74, 18, 78, 104, 0, 101, 0, 108, 0, 108, 0, 111, 0, 0, 0, 80>>
         [] line.name = "jmp" ->
              <<40, as_labels_by_name[line.args[1].name].index % 256,
                (as_labels_by_name[line.args[1].name].index \div 256) % 256>>

RECURSIVE ExpectedCode(_, _)
ExpectedCode(lines, n) ==
  IF n = 0 THEN <<>> ELSE ExpectedCode(lines, n - 1) \o ExpectedBytes(lines[n])

\* C6: in a returned file, the function-table entry of every label of the
\* source is the number of code bytes of the lines before the label's line,
\* and the code is the bytes of the lines in order, where every jmp, before or
\* after the definition of the label it names, carries the label's index.
C6_LabelOffsetsAndIndexes ==
  (as_pc = "done" /\ as_result.kind = "returned" /\ rt_pc # "second") =>
    /\ \A p \in DOMAIN as_lines :
         as_lines[p].kind = "label" =>
           TableEntry(as_result.function_table, as_labels_by_name[as_lines[p].name].index)
             = put_u32l(Len(ExpectedCode(as_lines, p - 1)))
    /\ SubSeq(as_result.code, 1, Len(ExpectedCode(as_lines, Len(as_lines))))
         = ExpectedCode(as_lines, Len(as_lines))

\* C6 witness: `jmp start` both before and after the line `start:`, whose
\* offset (3) differs from its index (0)
C6_Witness ==
  /\ as_pc = "done"
  /\ as_result.kind = "returned"
  /\ rt_pc = "first"
  /\ as_result.code = <<40, 0, 0, 40, 0, 0, 0, 0>>
  /\ as_result.function_table = <<3, 0, 0, 0>>

\* C4: a call of disassemble_quest_script ends; no offset gets a second line
\* (the passes of the inner loop are as many as the offsets that have a line),
\* every line ends at least one byte after it starts, and the passes are at
\* most as many as the code has bytes.
C4_DisassemblerTerminates ==
  /\ [](/\ da_decoded = Cardinality(DOMAIN da_dasm_lines)
        /\ da_decoded <= Len(da_in.code)
        /\ \A w \in DOMAIN da_dasm_lines : da_dasm_lines[w].next_offset > w
        /\ da_pc # "threw")
  /\ <>(da_pc = "done")

\* C4 witness: the call returned for a file whose functions 0 and 1 jump to
\* each other and whose function 2 is outside the code
C4_Witness ==
  /\ da_pc = "done"
  /\ da_in.code = <<40, 1, 0, 40, 0, 0>>
  /\ da_in.function_table = <<0, 0, 0, 0, 3, 0, 0, 0, 255, 255, 255, 255>>
  /\ da_decoded = 2

\* C1: when the text disassembled from an assembled file is assembled again,
\* the second assembly returns the header fields, code and function table of
\* the first.
C1_RoundTrip ==
  /\ rt_pc = "dasm" => da_pc # "threw"
  /\ (rt_pc = "second" /\ as_pc = "done") =>
       /\ as_result.kind = "returned"
       /\ as_result.header = rt_first.header
       /\ as_result.code = rt_first.code
       /\ as_result.function_table = rt_first.function_table

-----------------------------------------------------------------------------
(* Claims about the disassembler's walk and its argument stack, and about  *)
(* the assembler's errors and label indexes.                               *)

\* what the instruction at a line is: dasm_line, without the annotated
\* mode's offset and hex
DasmLineOf(line) == IF line.kind = "listing" THEN line.dasm_line ELSE line

\* the offsets add_disassembly_lines(z, end - z) visits
RECURSIVE Visits(_, _, _)
Visits(dasm_lines, z, end) ==
  IF z >= end THEN {}
  ELSE {z} \cup (IF z \in DOMAIN dasm_lines /\ dasm_lines[z].next_offset > z
                 THEN Visits(dasm_lines, dasm_lines[z].next_offset, end) ELSE {})

WalkLine(i) == DasmLineOf(da_dasm_lines[da_walk[i].offset].line)

\* pass i of the walk ended as `.failed`
WalkFailed(i) == WalkLine(i).kind = "directive" /\ WalkLine(i).name = ".failed"

\* C16: an instruction whose opcode has F_RET is the last one of its walk,
\* and after every other instruction the walk goes on at the byte after the
\* instruction's last argument.
C16_RetEndsWalk ==
  \A i \in 1 .. Len(da_walk) - 1 :
    /\ ~BitSet(da_walk[i].flags, F_RET)
    /\ da_walk[i + 1].offset = da_dasm_lines[da_walk[i].offset].next_offset

\* C17: an instruction that was rendered as `.failed` is the last one of
\* its walk.
C17_FailedEndsWalk ==
  \A i \in 1 .. Len(da_walk) - 1 : ~WalkFailed(i)

\* the passes at the end of the walk that decoded an F_PASS instruction
RECURSIVE TrailingPasses(_)
TrailingPasses(i) ==
  IF i = 0 \/ ~BitSet(da_walk[i].flags, F_PASS) \/ WalkFailed(i) THEN 0
  ELSE 1 + TrailingPasses(i - 1)

\* C18: the argument stack holds at most one value for each instruction of
\* the run of F_PASS instructions that ends the walk: it is empty after an
\* F_ARGS consumer, an ordinary opcode, an unknown opcode or a failed decode.
C18_StackHoldsOnlyLastPushes ==
  Len(da_arg_stack) <= TrailingPasses(Len(da_walk))

\* what the annotated mode prints after `message` for the stack: the
\* matching error, or one token per argument made from the stacked value at
\* the argument's place
MessageFromStack(arg_stack) ==
  LET Form(z) ==
        CASE z = 1 /\ arg_stack[z].type = "INT" -> "0x%X /* %u */"
          [] z = 1 /\ arg_stack[z].type = "REG" -> "r%u"
          [] z = 2 /\ arg_stack[z].type = "CSTRING" -> "escape_string"
          [] OTHER -> "/* invalid-type */"
  IN
  IF Len(arg_stack) # 2
  THEN <<[t |-> "dots"], [t |-> "matching error", expected |-> 2, received |-> Len(arg_stack)]>>
  ELSE <<[t |-> "dots"]>>
       \o [z \in 1 .. 2 |-> [t |-> "stack", form |-> Form(z), of |-> arg_stack[z], count |-> 0]]

\* a pass of the inner loop at a byte 50 (message, {INT32, CSTRING}, F_ARGS):
\* on GC_V3 the next instruction starts at the next byte and the line is
\* `message` with the arguments printed(stack before the pass); on DC_V2 the
\* bytes 50 12 00 00 00 68 00 are decoded as message 0x12, "h"
MessagePass(printed(_)) ==
  (/\ da_pc = "walk"
   /\ da_decoded' = da_decoded + 1
   /\ da_in.code[da_where + 1] = 80) =>
    LET line == DasmLineOf(da_dasm_lines'[da_where].line) IN
    IF da_in.version = GC_V3
    THEN /\ da_where' = da_where + 1
         /\ line = [kind |-> "code", name |-> "message", args |-> printed(da_arg_stack)]
         /\ da_arg_stack' = <<>>
    ELSE (/\ da_where + 7 <= Len(da_in.code)
          /\ SubSeq(da_in.code, da_where + 1, da_where + 7) = <<80, 18, 0, 0, 0, 104, 0>>) =>
           /\ da_where' = da_where + 7
           /\ line.kind = "code" /\ line.name = "message" /\ Len(line.args) = 2
           /\ line.args[1].t = "int"
           /\ line.args[2] = [t |-> "str", units |-> <<104>>]

\* C19: on a build with F_HAS_ARGS an F_ARGS instruction reads no argument
\* byte; in annotated mode its arguments are the stacked values in push
\* order, or the matching error when their number is not the opcode's, and in
\* reassembly mode they are `...`; on a build without F_HAS_ARGS the
\* arguments are decoded from the bytes after the opcode.
C19_ConsumerPrintsStack ==
  [][LET printed(arg_stack) == IF da_in.reassembly_mode THEN <<[t |-> "dots"]>>
                              ELSE MessageFromStack(arg_stack)
     IN MessagePass(printed)]_vars

\* C19 as stated: the printed arguments are the stacked values or the
\* matching error, whatever the mode
C19_ConsumerAlwaysPrintsStack ==
  [][LET printed(arg_stack) == MessageFromStack(arg_stack) IN MessagePass(printed)]_vars

\* C19 witness: the annotated listing of 4A 12 4E 68 00 50 on GC_V3 has
\* `message` at offset 5 with the pushed 0x12 and "h"
C19_Witness ==
  /\ da_pc = "done"
  /\ da_in.version = GC_V3
  /\ ~da_in.reassembly_mode
  /\ da_in.code = <<74, 18, 78, 104, 0, 80>>
  /\ 5 \in DOMAIN da_dasm_lines
  /\ da_dasm_lines[5].next_offset = 6
  /\ da_dasm_lines[5].line.dasm_line.args[2].of = [type |-> "INT", as_int |-> 18]
  /\ da_dasm_lines[5].line.dasm_line.args[3].of = [type |-> "CSTRING", as_string |-> <<104>>]
-----------------------------------------------------------------------------
(* Claims about the assembler's errors, its argument pushes and its label  *)
(* indexes.                                                                *)

\* the label lines of the source being assembled
LabelLines == {p \in DOMAIN as_lines : as_lines[p].kind = "label"}

\* the index a label line pins: the one after `@`, 0 for `start`, else -1
Pin(p) == IF as_lines[p].index < 0 /\ as_lines[p].name = "start" THEN 0 ELSE as_lines[p].index

\* C12: va_start has no row for DC_NTE (its row is F_V3_V4); a source for
\* DC_NTE with a va_start line fails and returns no file, and when the lookup
\* of a mnemonic is what threw, the line it threw at is such a line.
C12_UnknownMnemonicFails ==
  as_pc = "done" =>
    /\ (\E p \in DOMAIN as_lines :
          /\ as_lines[p].kind = "code"
          /\ as_lines[p].name = "va_start"
          /\ as_meta.quest_version = DC_NTE) =>
         /\ as_result.kind = "threw"
         /\ as_result.code = <<>>
         /\ as_result.function_table = <<>>
    /\ (as_result.kind = "threw" /\ as_result.what = "map::at") =>
         /\ as_lines[as_line_num].kind = "code"
         /\ as_lines[as_line_num].name = "va_start"
         /\ as_meta.quest_version = DC_NTE

\* C12 witness: the lookup of va_start threw in a source for DC_NTE that has
\* a start label
C12_Witness ==
  /\ as_pc = "done"
  /\ as_meta.quest_version = DC_NTE
  /\ "start" \in DOMAIN as_labels_by_name
  /\ as_result.kind = "threw"
  /\ as_result.what = "map::at"
  /\ as_lines[as_line_num].name = "va_start"

C14_StartAndUniqueLabels ==
  as_pc = "done" =>
    /\ as_result.kind = "returned" =>
         /\ "start" \in DOMAIN as_labels_by_name
         /\ as_labels_by_name["start"].index = 0
         /\ TableEntry(as_result.function_table, 0) # <<255, 255, 255, 255>>
         /\ \A p, q \in LabelLines : p # q => as_lines[p].name # as_lines[q].name
         /\ \A n, m \in DOMAIN as_labels_by_name :
              n # m => as_labels_by_name[n].index # as_labels_by_name[m].index
         /\ \A p \in LabelLines : as_lines[p].name \in DOMAIN as_labels_by_name
    /\ (\/ \A p \in LabelLines : as_lines[p].name # "start"
        \/ \E p \in LabelLines : as_lines[p].name = "start" /\ as_lines[p].index > 0
        \/ \E p, q \in LabelLines : p # q /\ as_lines[p].name = as_lines[q].name
        \/ \E p, q \in LabelLines : p # q /\ Pin(p) >= 0 /\ Pin(p) = Pin(q)) =>
         as_result.kind = "threw"

\* C14 witness: the source with `a@2:` and `b@2:` failed for the second index
C14_Witness ==
  /\ as_pc = "done"
  /\ as_result.kind = "threw"
  /\ as_result.what = "duplicate label index"
  /\ \E p, q \in LabelLines :
       /\ as_lines[p].name = "a" /\ as_lines[p].index = 2
       /\ as_lines[q].name = "b" /\ as_lines[q].index = 2

\* C20: once the indexes are assigned, every label without a pinned index has
\* the lowest index that no pinned label has and no unpinned label that is
\* before it in name order has.
C20_AutoIndexesLowestInNameOrder ==
  (as_pc = "code" \/ (as_pc = "done" /\ as_result.kind = "returned")) =>
    LET pinned == {Pin(p) : p \in LabelLines} \ {-1}
        unpinned == {as_lines[p].name : p \in {q \in LabelLines : Pin(q) < 0}}
    IN
    \A n \in unpinned :
      LET taken == pinned \cup {as_labels_by_name[m].index : m \in {k \in unpinned : NameBefore(k, n)}}
      IN as_labels_by_name[n].index = Min({i \in 0 .. Cardinality(taken) : i \notin taken})

\* C20 witness: `b:` stands before `a:` in the source and a has index 1, b
\* index 2
C20_Witness ==
  /\ as_pc = "done"
  /\ as_result.kind = "returned"
  /\ \E p, q \in LabelLines :
       p < q /\ as_lines[p] = [kind |-> "label", name |-> "b", index |-> -1]
             /\ as_lines[q] = [kind |-> "label", name |-> "a", index |-> -1]
  /\ as_labels_by_name["a"].index = 1
  /\ as_labels_by_name["b"].index = 2
-----------------------------------------------------------------------------
(* Claims about the number space, the language, the comment stripping and  *)
(* the license index.                                                      *)

\* C24: find_register_number_space gives the lowest start of num_regs free
\* slots that lie inside 0..255, fails when there is no such start, and
\* never gives a start whose window goes past slot 255.
C24_WindowInsideSlots ==
  (cl_pc = "done" /\ cl_call.fn = "find_register_number_space") =>
    LET candidate == cl_result[1].candidate
        num_regs == cl_call.num_regs
        fits == {x \in 0 .. 255 : \A z \in 0 .. num_regs - 1 : x + z \in cl_call.free}
    IN
    /\ fits = {} => candidate = -1
    /\ fits # {} => candidate = Min(fits)
    /\ candidate >= 0 => candidate + num_regs - 1 <= 255

\* the language bytes a build's header may hold: DC_NTE and BB_V4 read none
SupportedLanguages(version) ==
  CASE version \in {DC_V1_11_2000_PROTOTYPE, DC_V1, DC_V2} -> 0 .. 4
    [] version \in {PC_NTE, PC_V2} -> 0 .. 7
    [] version \in {GC_NTE, GC_V3, GC_EP3_NTE, GC_EP3, XB_V3} -> 0 .. 4
    [] OTHER -> {}

\* the override when it is not 0xFF, else the header's byte when the build
\* supports it, else 1
LanguageAsStated ==
  IF cl_call.override_language # 255 THEN cl_call.override_language
  ELSE IF cl_call.header_language \in SupportedLanguages(cl_call.version)
  THEN cl_call.header_language
  ELSE 1

\* C25: for every build but DC_NTE the language is the override when it is
\* not 0xFF, else the header's language byte when the build supports it,
\* else 1; for DC_NTE it is 0 whatever the override.
C25_EffectiveLanguage ==
  (cl_pc = "done" /\ cl_call.fn = "language") =>
    cl_result[1] = IF cl_call.version = DC_NTE THEN 0 ELSE LanguageAsStated

\* C25 as stated: the rule holds for every build
C25_EffectiveLanguageEveryBuild ==
  (cl_pc = "done" /\ cl_call.fn = "language") => cl_result[1] = LanguageAsStated

\* C25 witness: PC_V2 without override takes the header's language 7, which
\* the DC and GC builds do not support
C25_Witness ==
  /\ cl_pc = "done"
  /\ cl_call = [fn |-> "language", version |-> PC_V2, override_language |-> 255,
                header_language |-> 7]
  /\ cl_result = <<7>>

\* C29: a line that is one quoted string, with no quote inside, comes out
\* of the comment stripping as it went in.
C29_QuotedTextKept ==
  (cl_pc = "done" /\ cl_call.fn = "strip") =>
    LET line == cl_call.line IN
    (/\ Len(line) >= 2 /\ line[1] = "\"" /\ line[Len(line)] = "\""
     /\ \A i \in 2 .. Len(line) - 1 : line[i] # "\"") =>
      cl_result[1] = [threw |-> "", line |-> line]

\* the licenses the index holds by serial number
Licensed == {serial_number_to_license[s] : s \in DOMAIN serial_number_to_license}

\* C30: bb_username_to_license and xb_gamertag_to_license hold the licenses
\* of serial_number_to_license that have a BB username or an XB gamertag,
\* each under its own name, and no other.
C30_NameMapsFollowSerialMap ==
  /\ \A u \in DOMAIN bb_username_to_license :
       bb_username_to_license[u] \in Licensed /\ bb_username_to_license[u].bb_username = u
  /\ \A g \in DOMAIN xb_gamertag_to_license :
       xb_gamertag_to_license[g] \in Licensed /\ xb_gamertag_to_license[g].xb_gamertag = g
  /\ \A l \in Licensed :
       /\ l.bb_username # "" =>
            l.bb_username \in DOMAIN bb_username_to_license
       /\ l.xb_gamertag # "" =>
            l.xb_gamertag \in DOMAIN xb_gamertag_to_license

\* C26: for every build the episode detector walks and every instruction, the
\* detector and the disassembler stand at the same offset after the
\* instruction.
C26_SameNextOffset ==
  (cl_pc = "done" /\ cl_call.fn = "instruction") =>
    cl_result[1].episode_where = cl_result[1].dasm_where

\* C28: for every argument type, the disassembler's direct decode does not
\* raise 'invalid argument type' and, of what the assembler's direct encoder
\* wrote, reads exactly the bytes written.
C28_DecodeReadsWhatEncoderWrote ==
  (cl_pc = "done" /\ cl_call.fn = "arguments") =>
    /\ cl_result[1].dasm_threw # "invalid argument type"
    /\ cl_result[1].asm_threw = "" =>
         cl_result[1].dasm_threw = "" /\ cl_result[1].dasm_where = cl_result[1].written

\* C27: once an assembly for BB_V4 has returned, a source with a .joinable line
\* has given a header whose joinable flag is 1.
C27_JoinableLineSetsFlag ==
  (/\ as_pc = "done" /\ as_result.kind = "returned" /\ as_meta.quest_version = BB_V4
   /\ \E i \in DOMAIN as_lines : as_lines[i].kind = "directive" /\ as_lines[i].name = ".joinable") =>
    as_result.header.joinable = 1
=============================================================================
